---------------------------- MODULE Spec2Model ----------------------------
(***************************************************************************)
(* Model of the SREF caching / rate-limiting proxy (backend server):       *)
(* the cache store (getFromCache, setInCache, saveCacheToDisk), the token  *)
(* bucket (checkApiRateLimit), the retry policy (fetchWithRetry), the      *)
(* series processor (processData) and the data-endpoint handler.           *)
(*                                                                         *)
(* Times are milliseconds, as Date.now() gives them.  Strings the code     *)
(* inspects character by character (error messages, request fields) are   *)
(* sequences of one-character strings.                                     *)
(***************************************************************************)
EXTENDS Integers, Sequences, FiniteSets, TLC

VARIABLES
    now,          \* Date.now()
    cache,        \* the Map `cache`, in Map insertion order
    rateBuckets,  \* the Map `rateBuckets`: ip -> [tokens, lastRefill]
    saveTimeout,  \* the timers of saveCacheToDisk and the handle saveTimeout
    reqs,         \* the data-endpoint requests in flight, one per slot
    last,         \* the operation the last step performed and what it returned
    checks,       \* per client, the admission checks made so far: [at, ok]
    disk,         \* the snapshot file CACHE_FILE and the writes under way
    page          \* the dashboard: the object `state`, the reload button
                  \* and the runs of loadAllCharts in progress

vars == <<now, cache, rateBuckets, saveTimeout, reqs, last, checks, disk, page>>

\* no snapshot file has been written and no write is under way
NoDisk == [file |-> <<>>, writing |-> <<>>]

\* the object `state` as the module app.js creates it (lines 11-19), before
\* init() has attached the listeners
StartPage ==
    [ready |-> FALSE, station |-> "JFK", date |-> "2026-01-01",
     run |-> "null", data |-> {}, hasSnow |-> FALSE, isLoading |-> FALSE,
     reloadDisabled |-> FALSE, runs |-> <<>>]

---------------------------------------------------------------------------
(* Bounds of the model.  The program's own values are given in comments    *)
(* where a program constant is scaled down to keep the model finite.       *)

\* the clock advances in steps of TickMs, up to a horizon per specification
TickMs == 500
CacheMaxTime == 1200
BucketMaxTime == 2500
RetryMaxTime == 4000
HandlerMaxTime == 1200
\* CACHE_MAX_ENTRIES = 1000 in the program
CACHE_MAX_ENTRIES == 3
\* CACHE_TTL_DAYS * 24 * 60 * 60 * 1000 (14 days) in the program
CACHE_TTL_MS == 500
\* the 5000 ms debounce of saveCacheToDisk
SAVE_DELAY_MS == 1000
\* BUCKET_MAX = 50 in the program
BUCKET_MAX == 2
\* the 15000 ms of req.setTimeout
UPSTREAM_TIMEOUT_MS == 1000
\* request slots of the handler model, admission checks recorded per client
MaxRequests == 2
MaxChecks == 4

(* Program constants kept at their values. *)
REFILL_RATE == 1
REFILL_INTERVAL == 1000
RETRIES == 3
BACKOFF_BASE_MS == 1000
MIN_MEMBERS == 10
EVICT_PERCENT == 10

---------------------------------------------------------------------------
(* Small helpers *)

Min(a, b) == IF a < b THEN a ELSE b

RECURSIVE Pow2(_)
Pow2(n) == IF n <= 0 THEN 1 ELSE 2 * Pow2(n - 1)

\* Math.ceil(n * p / 100) for naturals
CeilPercent(n, p) == (n * p + 99) \div 100

\* String.prototype.includes on character sequences
Includes(s, pat) ==
    \E i \in 0..(Len(s) - Len(pat)) : SubSeq(s, i + 1, i + Len(pat)) = pat

DigitChar(d) == <<"0","1","2","3","4","5","6","7","8","9">>[d + 1]

\* the decimal text of a natural number (template-literal interpolation)
RECURSIVE NumToStr(_)
NumToStr(n) ==
    IF n < 10 THEN <<DigitChar(n)>>
    ELSE NumToStr(n \div 10) \o <<DigitChar(n % 10)>>

\* JavaScript null; every other value the model passes around is an object
Null == [null |-> TRUE]

---------------------------------------------------------------------------
(* Cache store: part_001 lines 63-112 *)

CacheKeys(c) == {c[i].key : i \in 1..Len(c)}

\* position of `key` in the Map, 0 when absent
CacheIndex(c, key) ==
    IF key \in CacheKeys(c)
    THEN CHOOSE i \in 1..Len(c) : c[i].key = key
    ELSE 0

\* Map.prototype.delete
CacheDelete(c, key) ==
    LET Keep(e) == e.key # key IN SelectSeq(c, Keep)

\* (mutant) an existing entry takes the new data and keeps its stamps
CacheSet_KeepStamps(c, key, item) ==
    LET i == CacheIndex(c, key)
        e == [key |-> key, data |-> item.data, expiry |-> item.expiry,
              cachedAt |-> item.cachedAt]
    IN IF i = 0 THEN Append(c, e) ELSE [c EXCEPT ![i].data = item.data]

\* Map.prototype.set: an existing key keeps its place, a new key goes last
CacheSet(c, key, item) ==
    LET i == CacheIndex(c, key)
        e == [key |-> key, data |-> item.data, expiry |-> item.expiry,
              cachedAt |-> item.cachedAt]
    IN IF i = 0 THEN Append(c, e) ELSE [c EXCEPT ![i] = e]

\* (mutant) an expired entry is reported absent but left in the Map
GetFromCache_NoDelete(c, key, t) ==
    LET i == CacheIndex(c, key)
    IN IF i = 0 THEN [cache |-> c, ret |-> Null]
       ELSE IF t > c[i].expiry THEN [cache |-> c, ret |-> Null]
       ELSE [cache |-> c, ret |-> c[i].data]

\* getFromCache(key) at time t: the Map afterwards and the value returned
GetFromCache(c, key, t) ==
    LET i == CacheIndex(c, key)
    IN IF i = 0 THEN [cache |-> c, ret |-> Null]
       ELSE IF t > c[i].expiry THEN [cache |-> CacheDelete(c, key), ret |-> Null]
       ELSE [cache |-> c, ret |-> c[i].data]

\* (mutant) the comparison is reversed: newest first
InsertByCachedAt_Newest(sorted, e) ==
    LET k == Cardinality({i \in 1..Len(sorted) : sorted[i].cachedAt >= e.cachedAt})
    IN SubSeq(sorted, 1, k) \o <<e>> \o SubSeq(sorted, k + 1, Len(sorted))

\* Array.prototype.sort with (a, b) => cachedAt(a) - cachedAt(b): stable
InsertByCachedAt(sorted, e) ==
    LET k == Cardinality({i \in 1..Len(sorted) : sorted[i].cachedAt <= e.cachedAt})
    IN SubSeq(sorted, 1, k) \o <<e>> \o SubSeq(sorted, k + 1, Len(sorted))

\* (mutant) the entries are taken in Map order, not sorted
SortByCachedAt_MapOrder(s) == s

RECURSIVE SortByCachedAt(_)
SortByCachedAt(s) ==
    IF s = <<>> THEN <<>>
    ELSE InsertByCachedAt(SortByCachedAt(SubSeq(s, 1, Len(s) - 1)), s[Len(s)])

\* (mutant) eviction starts only above the maximum
EvictedKeys_Above(c) ==
    IF Len(c) > CACHE_MAX_ENTRIES
    THEN LET entries == SortByCachedAt(c)
             toRemove == CeilPercent(CACHE_MAX_ENTRIES, EVICT_PERCENT)
         IN {entries[i].key : i \in 1..Min(toRemove, Len(entries))}
    ELSE {}

\* the eviction loop of setInCache: the keys deleted when the store is full
EvictedKeys(c) ==
    IF Len(c) >= CACHE_MAX_ENTRIES
    THEN LET entries == SortByCachedAt(c)
             toRemove == CeilPercent(CACHE_MAX_ENTRIES, EVICT_PERCENT)
         IN {entries[i].key : i \in 1..Min(toRemove, Len(entries))}
    ELSE {}

\* setInCache(key, data) at time t: the Map afterwards
SetInCache(c, key, data, t) ==
    LET victims == EvictedKeys(c)
        Keep(e) == e.key \notin victims
        kept == SelectSeq(c, Keep)
    IN CacheSet(kept, key,
                [data |-> data, expiry |-> t + CACHE_TTL_MS, cachedAt |-> t])

\* The snapshot timers: `timers` holds the due time of every timer that is
\* set and has not fired, `handle` the due time of the timer the variable
\* saveTimeout names (empty when it names none or one that has fired).
NoTimer == [handle |-> {}, timers |-> {}]

\* (mutant) the timer named by the handle is not cancelled
SaveCacheToDisk_NoClear(t) ==
    [handle |-> {t + SAVE_DELAY_MS},
     timers |-> saveTimeout.timers \cup {t + SAVE_DELAY_MS}]

\* saveCacheToDisk at time t: clearTimeout(saveTimeout), then
\* saveTimeout = setTimeout(..., delay)
SaveCacheToDisk(t) ==
    [handle |-> {t + SAVE_DELAY_MS},
     timers |-> (saveTimeout.timers \ saveTimeout.handle) \cup {t + SAVE_DELAY_MS}]

---------------------------------------------------------------------------
(* Series processor: part_001 lines 194-221 *)

\* a raw value as upstream sends it: numeric text, or text parseFloat rejects
ParseFloatOrZero(value) == IF value.numeric THEN value.n ELSE 0

\* Array.from(set).sort((a, b) => a - b)
RECURSIVE SortedTimes(_)
SortedTimes(S) ==
    IF S = {} THEN <<>>
    ELSE LET m == CHOOSE x \in S : \A y \in S : x <= y
         IN <<m>> \o SortedTimes(S \ {m})

\* series.find(p => p.x === time): index of the first such point, 0 if none
FindPoint(series, time) ==
    IF \E i \in 1..Len(series) : series[i].x = time
    THEN CHOOSE i \in 1..Len(series) :
            /\ series[i].x = time
            /\ \A j \in 1..(i - 1) : series[j].x # time
    ELSE 0

\* (mutant) a member without a point at the time counts as 0
RECURSIVE SumAt_AbsentAsZero(_, _, _)
SumAt_AbsentAsZero(processed, keys, time) ==
    IF keys = {} THEN [sum |-> 0, count |-> 0]
    ELSE LET k == CHOOSE x \in keys : TRUE
             rest == SumAt_AbsentAsZero(processed, keys \ {k}, time)
             i == FindPoint(processed[k], time)
         IN IF i = 0 THEN [sum |-> rest.sum, count |-> rest.count + 1]
            ELSE [sum |-> rest.sum + processed[k][i].y, count |-> rest.count + 1]

RECURSIVE SumAt(_, _, _)
SumAt(processed, keys, time) ==
    IF keys = {} THEN [sum |-> 0, count |-> 0]
    ELSE LET k == CHOOSE x \in keys : TRUE
             rest == SumAt(processed, keys \ {k}, time)
             i == FindPoint(processed[k], time)
         IN IF i = 0 THEN rest
            ELSE [sum |-> rest.sum + processed[k][i].y, count |-> rest.count + 1]

\* a Mean value is the quotient sum / count, kept as the pair
MeanPoint(processed, keys, time) ==
    LET a == SumAt(processed, keys, time)
    IN [x |-> time,
        y |-> IF a.count > 0 THEN [num |-> a.sum, den |-> a.count]
              ELSE [num |-> 0, den |-> 1]]

\* processData(raw); raw maps each label to [data |-> <<time, value>> pairs]
ProcessData(raw) ==
    LET members == {l \in DOMAIN raw : Len(raw[l].data) # 0}
        processed == [l \in members |->
                        [i \in 1..Len(raw[l].data) |->
                            [x |-> raw[l].data[i][1],
                             y |-> ParseFloatOrZero(raw[l].data[i][2])]]]
        timePoints == UNION {{raw[l].data[i][1] : i \in 1..Len(raw[l].data)} : l \in members}
        sortedTimes == SortedTimes(timePoints)
    IN IF members # {}
       THEN [l \in members \cup {"Mean"} |->
                IF l = "Mean"
                THEN [i \in 1..Len(sortedTimes) |->
                        MeanPoint(processed, members, sortedTimes[i])]
                ELSE processed[l]]
       ELSE processed

\* Object.keys(processed).filter(k => k !== 'Mean').length
MemberCount(processed) == Cardinality(DOMAIN processed \ {"Mean"})

\* Object.entries(raw) throws a TypeError when raw is null (line 198)
ProcessThrows(raw) == raw = Null

MsgNotObject == <<"C","a","n","n","o","t"," ","c","o","n","v","e","r","t"," ",
                  "u","n","d","e","f","i","n","e","d"," ","o","r"," ",
                  "n","u","l","l"," ","t","o"," ","o","b","j","e","c","t">>

---------------------------------------------------------------------------
(* Token bucket: part_001 lines 225-253 *)

\* (mutant) the refill is not capped at BUCKET_MAX
RefilledTokens_NoCap(bucket, t) ==
    LET elapsed == t - bucket.lastRefill
        tokensToAdd == (elapsed \div REFILL_INTERVAL) * REFILL_RATE
    IN bucket.tokens + tokensToAdd

\* (mutant) two tokens are added for every interval elapsed
RefilledTokens_Double(bucket, t) ==
    LET elapsed == t - bucket.lastRefill
        tokensToAdd == (elapsed \div REFILL_INTERVAL) * 2 * REFILL_RATE
    IN Min(BUCKET_MAX, bucket.tokens + tokensToAdd)

\* the refill arithmetic of checkApiRateLimit
RefilledTokens(bucket, t) ==
    LET elapsed == t - bucket.lastRefill
        tokensToAdd == (elapsed \div REFILL_INTERVAL) * REFILL_RATE
    IN Min(BUCKET_MAX, bucket.tokens + tokensToAdd)

\* (mutant) lastRefill moves only when a token was added
CheckApiRateLimit_KeepRemainder(b, ip, t) ==
    LET bucket == IF ip \in DOMAIN b THEN b[ip]
                  ELSE [tokens |-> BUCKET_MAX, lastRefill |-> t]
        tokens == RefilledTokens(bucket, t)
        ok == tokens > 0
    IN [buckets |-> (ip :> [tokens |-> IF ok THEN tokens - 1 ELSE tokens,
                            lastRefill |-> IF t - bucket.lastRefill >= REFILL_INTERVAL
                                           THEN t ELSE bucket.lastRefill]) @@ b,
        ok |-> ok]

\* (mutant) a denied check leaves lastRefill as it was
CheckApiRateLimit_KeepStampOnDeny(b, ip, t) ==
    LET bucket == IF ip \in DOMAIN b THEN b[ip]
                  ELSE [tokens |-> BUCKET_MAX, lastRefill |-> t]
        tokens == RefilledTokens(bucket, t)
        ok == tokens > 0
    IN [buckets |-> (ip :> [tokens |-> IF ok THEN tokens - 1 ELSE tokens,
                            lastRefill |-> IF ok THEN t ELSE bucket.lastRefill])
                    @@ b,
        ok |-> ok]

\* (mutant) one bucket is shared: the checked bucket is written to every client
CheckApiRateLimit_Shared(b, ip, t) ==
    LET bucket == IF ip \in DOMAIN b THEN b[ip]
                  ELSE [tokens |-> BUCKET_MAX, lastRefill |-> t]
        tokens == RefilledTokens(bucket, t)
        ok == tokens > 0
    IN [buckets |-> [k \in DOMAIN b \cup {ip} |->
                        [tokens |-> IF ok THEN tokens - 1 ELSE tokens,
                         lastRefill |-> t]],
        ok |-> ok]

\* checkApiRateLimit(ip) at time t: the Map afterwards and the value returned
CheckApiRateLimit(b, ip, t) ==
    LET bucket == IF ip \in DOMAIN b THEN b[ip]
                  ELSE [tokens |-> BUCKET_MAX, lastRefill |-> t]
        tokens == RefilledTokens(bucket, t)
        ok == tokens > 0
    IN [buckets |-> (ip :> [tokens |-> IF ok THEN tokens - 1 ELSE tokens,
                            lastRefill |-> t]) @@ b,
        ok |-> ok]

---------------------------------------------------------------------------
(* Upstream client outcomes and retry policy: part_001 lines 117-189 *)

StrTimeout == <<"t","i","m","e","o","u","t">>
StrEconnreset == <<"E","C","O","N","N","R","E","S","E","T">>
StrReturned5 == <<"N","O","A","A"," ","r","e","t","u","r","n","e","d"," ","5">>
StrReturned == <<"N","O","A","A"," ","r","e","t","u","r","n","e","d"," ">>
MsgRequestTimeout == <<"R","e","q","u","e","s","t"," ","t","i","m","e","o","u","t">>
MsgParse == <<"F","a","i","l","e","d"," ","t","o"," ","p","a","r","s","e"," ",
              "N","O","A","A"," ","r","e","s","p","o","n","s","e">>
\* messages of transport errors Node reports through req.on('error')
MsgReadReset == <<"r","e","a","d"," ","E","C","O","N","N","R","E","S","E","T">>
MsgNotFound == <<"g","e","t","a","d","d","r","i","n","f","o"," ",
                 "E","N","O","T","F","O","U","N","D">>

\* err.message of the rejection fetchFromNOAA makes for an outcome
ErrorMessage(o) ==
    CASE o.kind = "status"  -> StrReturned \o NumToStr(o.code)
      [] o.kind = "parse"   -> MsgParse
      [] o.kind = "timeout" -> MsgRequestTimeout
      [] o.kind = "neterr"  -> o.msg

\* (mutant) every upstream status is retried
IsRetryable_AnyStatus(msg) ==
    \/ Includes(msg, StrTimeout)
    \/ Includes(msg, StrEconnreset)
    \/ Includes(msg, StrReturned)

\* isRetryable of fetchWithRetry
IsRetryable(msg) ==
    \/ Includes(msg, StrTimeout)
    \/ Includes(msg, StrEconnreset)
    \/ Includes(msg, StrReturned5)

\* (mutant) the loop never gives up
Exhausted_Never(attempt) == FALSE

\* (mutant) the loop allows one attempt more
Exhausted_OneMore(attempt) == attempt = RETRIES + 1

\* attempt === retries: the attempt just failed was the last one allowed
Exhausted(attempt) == attempt = RETRIES

\* (mutant) the delay does not grow with the attempt
BackoffDelay_Constant(attempt) == BACKOFF_BASE_MS

\* delay = Math.pow(2, attempt - 1) * 1000
BackoffDelay(attempt) == Pow2(attempt - 1) * BACKOFF_BASE_MS

---------------------------------------------------------------------------
(* Request fields and cache key: part_001 lines 274-292 *)

UpperLetters == <<"A","B","C","D","E","F","G","H","I","J","K","L","M",
                  "N","O","P","Q","R","S","T","U","V","W","X","Y","Z">>
LowerLetters == <<"a","b","c","d","e","f","g","h","i","j","k","l","m",
                  "n","o","p","q","r","s","t","u","v","w","x","y","z">>

IsLetter(ch) == \E i \in 1..26 : ch = UpperLetters[i] \/ ch = LowerLetters[i]

\* /^[A-Za-z]{3,4}$/.test(station)
ValidStation(station) ==
    /\ Len(station) \in 3..4
    /\ \A i \in 1..Len(station) : IsLetter(station[i])

validRuns == {<<"0","3">>, <<"0","9">>, <<"1","5">>, <<"2","1">>}

validParams == {<<"T","o","t","a","l","-","S","N","O">>,
                <<"3","h","r","l","y","-","S","N","O">>,
                <<"T","o","t","a","l","-","Q","P","F">>,
                <<"3","h","r","l","y","-","Q","P","F">>,
                <<"3","h","r","l","y","-","T","M","P">>,
                <<"3","h","-","1","0","m","W","N","D">>}

\* String.prototype.toUpperCase on letters
ToUpperCase(str) ==
    [i \in 1..Len(str) |->
        IF \E j \in 1..26 : str[i] = LowerLetters[j]
        THEN UpperLetters[CHOOSE j \in 1..26 : str[i] = LowerLetters[j]]
        ELSE str[i]]

\* `${date}_${run}_${station}_${param}`
CacheKeyOf(date, run, station, param) ==
    date \o <<"_">> \o run \o <<"_">> \o station \o <<"_">> \o param

\* (mutant) the run is valid when it ends with a valid run
ValidationError_RunSuffix(r) ==
    IF ~ValidStation(r.station) THEN "Invalid station format"
    ELSE IF ~(Len(r.run) >= 2
              /\ SubSeq(r.run, Len(r.run) - 1, Len(r.run)) \in validRuns)
         THEN "Invalid run time"
    ELSE IF r.param \notin validParams THEN "Invalid parameter"
    ELSE ""

\* (mutant) the run is not validated
ValidationError_SkipRun(r) ==
    IF ~ValidStation(r.station) THEN "Invalid station format"
    ELSE IF r.param \notin validParams THEN "Invalid parameter"
    ELSE ""

\* the 400 answers of the handler, "" when the request passes validation
ValidationError(r) ==
    IF ~ValidStation(r.station) THEN "Invalid station format"
    ELSE IF r.run \notin validRuns THEN "Invalid run time"
    ELSE IF r.param \notin validParams THEN "Invalid parameter"
    ELSE ""

---------------------------------------------------------------------------
(* Inputs the model draws from *)

Stations == {<<"J","F","K">>, <<"j","f","k">>, <<"J","F">>}
Runs == {<<"0","3">>, <<"0","9">>, <<"1","2">>}
Params == {<<"3","h","r","l","y","-","T","M","P">>, <<"3","h","-","T","M","P">>}
Dates == {<<"2","0","2","6","-","0","1","-","0","5">>}

RequestInputs == [station : Stations, run : Runs, param : Params, date : Dates]

ValidInputs == {r \in RequestInputs : ValidationError(r) = ""}

Keys == {CacheKeyOf(r.date, r.run, r.station, r.param) : r \in ValidInputs}

Clients == {"ipA", "ipB"}

MemberLabels == <<"m01", "m02", "m03", "m04", "m05", "m06",
                  "m07", "m08", "m09", "m10", "m11">>

\* an upstream body whose first n member series have one point, the rest none
RawWith(n) ==
    [l \in {MemberLabels[i] : i \in 1..Len(MemberLabels)} |->
        [data |-> IF \E i \in 1..n : MemberLabels[i] = l
                  THEN << <<0, [numeric |-> TRUE, n |-> n]>> >>
                  ELSE <<>>]]

Raws == {RawWith(0), RawWith(9), RawWith(10), RawWith(11)}

\* processData on the bodies the model draws, evaluated once
Processed == [raw \in Raws |-> ProcessData(raw)]

\* (mutant) a body processData cannot walk is taken as one without series
ProcessOutcome_EmptyOnThrow(raw) ==
    IF ProcessThrows(raw) THEN [thrown |-> FALSE, processed |-> <<>>]
    ELSE [thrown |-> FALSE, processed |-> Processed[raw]]

\* processData(raw) inside the try of the handler (line 313): the value it
\* returns, or the error it throws
ProcessOutcome(raw) ==
    IF ProcessThrows(raw) THEN [thrown |-> TRUE, message |-> MsgNotObject]
    ELSE [thrown |-> FALSE, processed |-> Processed[raw]]

CompleteResults == {Processed[RawWith(10)], Processed[RawWith(11)]}

\* what one upstream attempt can end with
FailureOutcomes ==
    {[kind |-> "status", code |-> c] : c \in {404, 429, 500, 503}}
    \cup {[kind |-> "parse"], [kind |-> "timeout"]}
    \cup {[kind |-> "neterr", msg |-> m] : m \in {MsgReadReset, MsgNotFound}}

Outcomes == FailureOutcomes \cup {[kind |-> "ok", raw |-> r] : r \in Raws}

---------------------------------------------------------------------------
(* Steps common to every specification *)

IdleReq == [pc |-> "idle"]

\* the clock advances, up to the horizon `limit`
TickTo(limit) ==
    /\ now + TickMs <= limit
    /\ now' = now + TickMs
    /\ last' = [op |-> "tick"]
    /\ UNCHANGED <<cache, rateBuckets, saveTimeout, reqs, checks,
                   disk, page>>

\* a timer of saveCacheToDisk fires (part_001 lines 102-111): the callback
\* serialises Object.fromEntries(cache) and hands it to fs.writeFile
SaveTimerFires ==
    /\ \E d \in saveTimeout.timers :
          /\ now >= d
          /\ saveTimeout' = [handle |-> saveTimeout.handle \ {d},
                             timers |-> saveTimeout.timers \ {d}]
    /\ last' = [op |-> "save", written |-> cache]
    /\ UNCHANGED <<now, cache, rateBuckets, reqs, checks, disk, page>>

Init ==
    /\ now = 0
    /\ cache = <<>>
    /\ rateBuckets = <<>>
    /\ saveTimeout = NoTimer
    /\ reqs = [i \in 1..MaxRequests |-> IdleReq]
    /\ disk = NoDisk
    /\ page = StartPage
    /\ last = [op |-> "init"]
    /\ checks = [ip \in Clients |-> <<>>]

---------------------------------------------------------------------------
(* The data endpoint: part_001 lines 274-330, with fetchWithRetry (171-189) *)

\* (mutant) a request is taken up only when no other request is suspended
Accepts_WhenQuiet(i) == \A j \in 1..MaxRequests : reqs[j].pc = "idle"

\* the handler is entered for a request as it arrives, whatever other
\* requests are suspended at an await; slot i holds none of them
Accepts(i) == reqs[i].pc = "idle"

\* (mutant) the admission check is made before the cache lookup
Request_CheckFirst(i, ip, r) ==
    /\ Accepts(i)
    /\ \A j \in 1..(i - 1) : reqs[j].pc # "idle"
    /\ LET err == ValidationError(r)
           key == CacheKeyOf(r.date, r.run, r.station, r.param)
           g == GetFromCache(cache, key, now)
           adm == CheckApiRateLimit(rateBuckets, ip, now)
       IN IF err # ""
          THEN /\ last' = [op |-> "response", slot |-> i, ip |-> ip,
                           status |-> 400, error |-> err, input |-> r]
               /\ UNCHANGED <<cache, rateBuckets, reqs>>
          ELSE IF ~adm.ok
          THEN /\ rateBuckets' = adm.buckets
               /\ last' = [op |-> "response", slot |-> i, ip |-> ip, key |-> key,
                           status |-> 429, found |-> key \in CacheKeys(cache)]
               /\ UNCHANGED <<cache, reqs>>
          ELSE IF g.ret # Null
          THEN /\ cache' = g.cache
               /\ rateBuckets' = adm.buckets
               /\ last' = [op |-> "response", slot |-> i, ip |-> ip, key |-> key,
                           status |-> 200, xcache |-> "HIT", body |-> g.ret]
               /\ UNCHANGED reqs
          ELSE /\ cache' = g.cache
               /\ rateBuckets' = adm.buckets
               /\ reqs' = [reqs EXCEPT ![i] =
                              [pc |-> "fetching", ip |-> ip, key |-> key,
                               attempt |-> 1, startAt |-> now, arrivedAt |-> now,
                               failAt |-> 0, wakeAt |-> 0,
                               errs |-> <<>>, lookedUp |-> g.cache]]
               /\ last' = [op |-> "attempt", slot |-> i, ip |-> ip, key |-> key,
                           attempt |-> 1]
    /\ UNCHANGED <<now, saveTimeout, checks, disk, page>>

\* the handler up to its first await: validation, cache lookup, admission
\* check and the first upstream attempt (lines 275-312, 172-174); a new
\* request takes the lowest free slot
Handle(i, ip, r) ==
    /\ Accepts(i)
    /\ \A j \in 1..(i - 1) : reqs[j].pc # "idle"
    /\ LET err == ValidationError(r)
           key == CacheKeyOf(r.date, r.run, r.station, r.param)
           g == GetFromCache(cache, key, now)
           adm == CheckApiRateLimit(rateBuckets, ip, now)
       IN IF err # ""
          THEN /\ last' = [op |-> "response", slot |-> i, ip |-> ip,
                           status |-> 400, error |-> err, input |-> r]
               /\ UNCHANGED <<cache, rateBuckets, reqs>>
          ELSE IF g.ret # Null
          THEN /\ cache' = g.cache
               /\ last' = [op |-> "response", slot |-> i, ip |-> ip, key |-> key,
                           status |-> 200, xcache |-> "HIT", body |-> g.ret]
               /\ UNCHANGED <<rateBuckets, reqs>>
          ELSE IF ~adm.ok
          THEN /\ cache' = g.cache
               /\ rateBuckets' = adm.buckets
               /\ last' = [op |-> "response", slot |-> i, ip |-> ip, key |-> key,
                           status |-> 429, found |-> key \in CacheKeys(cache)]
               /\ UNCHANGED reqs
          ELSE /\ cache' = g.cache
               /\ rateBuckets' = adm.buckets
               /\ reqs' = [reqs EXCEPT ![i] =
                              [pc |-> "fetching", ip |-> ip, key |-> key,
                               attempt |-> 1, startAt |-> now, arrivedAt |-> now,
                               failAt |-> 0, wakeAt |-> 0,
                               errs |-> <<>>, lookedUp |-> g.cache]]
               /\ last' = [op |-> "attempt", slot |-> i, ip |-> ip, key |-> key,
                           attempt |-> 1]
    /\ UNCHANGED <<now, saveTimeout, disk, page>>

\* a request arrives and is handled to its first await
Request(i, ip, r) == Handle(i, ip, r) /\ UNCHANGED checks

\* (mutant) an incomplete result is stored as well
Resolved_AlwaysCache(i, raw) ==
    LET out == ProcessOutcome(raw)
        processed == out.processed
        memberCount == MemberCount(processed)
        key == reqs[i].key
    IN IF out.thrown
       THEN /\ last' = [op |-> "response", slot |-> i, ip |-> reqs[i].ip,
                        key |-> key, status |-> 502, details |-> out.message,
                        attempt |-> reqs[i].attempt, errs |-> reqs[i].errs,
                        arrivedAt |-> reqs[i].arrivedAt,
                        lookedUp |-> reqs[i].lookedUp, thrown |-> TRUE]
            /\ reqs' = [reqs EXCEPT ![i] = IdleReq]
            /\ UNCHANGED <<cache, saveTimeout>>
       ELSE /\ cache' = SetInCache(cache, key, processed, now)
            /\ saveTimeout' = SaveCacheToDisk(now)
            /\ last' = [op |-> "response", slot |-> i, ip |-> reqs[i].ip,
                        key |-> key, status |-> 200,
                        xcache |-> IF memberCount >= MIN_MEMBERS THEN "MISS"
                                   ELSE "INCOMPLETE",
                        body |-> processed, attempt |-> reqs[i].attempt,
                        errs |-> reqs[i].errs, arrivedAt |-> reqs[i].arrivedAt,
                        put |-> TRUE, replaced |-> key \in CacheKeys(cache)]
            /\ reqs' = [reqs EXCEPT ![i] = IdleReq]

\* fetchFromNOAA resolves: lines 313-325, and the catch of the handler
\* (lines 326-329) when processData throws
Resolved(i, raw) ==
    LET out == ProcessOutcome(raw)
        processed == out.processed
        memberCount == MemberCount(processed)
        key == reqs[i].key
    IN IF out.thrown
       THEN /\ last' = [op |-> "response", slot |-> i, ip |-> reqs[i].ip,
                        key |-> key, status |-> 502, details |-> out.message,
                        attempt |-> reqs[i].attempt, errs |-> reqs[i].errs,
                        arrivedAt |-> reqs[i].arrivedAt,
                        lookedUp |-> reqs[i].lookedUp, thrown |-> TRUE]
            /\ reqs' = [reqs EXCEPT ![i] = IdleReq]
            /\ UNCHANGED <<cache, saveTimeout>>
       ELSE /\ IF memberCount >= MIN_MEMBERS
               THEN /\ cache' = SetInCache(cache, key, processed, now)
                    /\ saveTimeout' = SaveCacheToDisk(now)
                    /\ last' = [op |-> "response", slot |-> i, ip |-> reqs[i].ip,
                                key |-> key, status |-> 200, xcache |-> "MISS",
                                body |-> processed, attempt |-> reqs[i].attempt,
                                errs |-> reqs[i].errs, arrivedAt |-> reqs[i].arrivedAt,
                                put |-> TRUE,
                                replaced |-> key \in CacheKeys(cache)]
               ELSE /\ last' = [op |-> "response", slot |-> i, ip |-> reqs[i].ip,
                                key |-> key, status |-> 200, xcache |-> "INCOMPLETE",
                                body |-> processed, attempt |-> reqs[i].attempt,
                                errs |-> reqs[i].errs, arrivedAt |-> reqs[i].arrivedAt,
                                put |-> FALSE]
                    /\ UNCHANGED <<cache, saveTimeout>>
            /\ reqs' = [reqs EXCEPT ![i] = IdleReq]

\* (mutant) a failed request drops the entry of its key
Rejected_DropsEntry(i, o) ==
    LET msg == ErrorMessage(o)
        attempt == reqs[i].attempt
    IN IF Exhausted(attempt) \/ ~IsRetryable(msg)
       THEN /\ reqs' = [reqs EXCEPT ![i] = IdleReq]
            /\ last' = [op |-> "response", slot |-> i, ip |-> reqs[i].ip,
                        key |-> reqs[i].key, status |-> 502, details |-> msg,
                        attempt |-> attempt, errs |-> Append(reqs[i].errs, o),
                        arrivedAt |-> reqs[i].arrivedAt,
                        lookedUp |-> reqs[i].lookedUp, thrown |-> FALSE]
            /\ cache' = CacheDelete(cache, reqs[i].key)
            /\ UNCHANGED saveTimeout
       ELSE /\ reqs' = [reqs EXCEPT ![i] =
                          [@ EXCEPT !.pc = "backoff",
                                    !.errs = Append(@, o),
                                    !.failAt = now,
                                    !.wakeAt = now + BackoffDelay(attempt)]]
            /\ last' = [op |-> "backoff", slot |-> i, attempt |-> attempt]
            /\ UNCHANGED <<cache, saveTimeout, disk, page>>

\* (mutant) a failed request also fails the other requests in flight for its key
Rejected_FailsSameKey(i, o) ==
    LET msg == ErrorMessage(o)
        attempt == reqs[i].attempt
    IN IF Exhausted(attempt) \/ ~IsRetryable(msg)
       THEN /\ reqs' = [j \in 1..MaxRequests |->
                          IF reqs[j].pc # "idle" /\ reqs[j].key = reqs[i].key
                          THEN IdleReq ELSE reqs[j]]
            /\ last' = [op |-> "response", slot |-> i, ip |-> reqs[i].ip,
                        key |-> reqs[i].key, status |-> 502, details |-> msg,
                        attempt |-> attempt, errs |-> Append(reqs[i].errs, o),
                        arrivedAt |-> reqs[i].arrivedAt,
                        lookedUp |-> reqs[i].lookedUp, thrown |-> FALSE]
            /\ UNCHANGED <<cache, saveTimeout>>
       ELSE /\ reqs' = [reqs EXCEPT ![i] =
                          [@ EXCEPT !.pc = "backoff",
                                    !.errs = Append(@, o),
                                    !.failAt = now,
                                    !.wakeAt = now + BackoffDelay(attempt)]]
            /\ last' = [op |-> "backoff", slot |-> i, attempt |-> attempt]
            /\ UNCHANGED <<cache, saveTimeout, disk, page>>

\* fetchFromNOAA rejects: the catch of fetchWithRetry (lines 175-187) and,
\* when it rethrows, the catch of the handler (lines 326-329)
Rejected(i, o) ==
    LET msg == ErrorMessage(o)
        attempt == reqs[i].attempt
    IN IF Exhausted(attempt) \/ ~IsRetryable(msg)
       THEN /\ reqs' = [reqs EXCEPT ![i] = IdleReq]
            /\ last' = [op |-> "response", slot |-> i, ip |-> reqs[i].ip,
                        key |-> reqs[i].key, status |-> 502, details |-> msg,
                        attempt |-> attempt, errs |-> Append(reqs[i].errs, o),
                        arrivedAt |-> reqs[i].arrivedAt,
                        lookedUp |-> reqs[i].lookedUp, thrown |-> FALSE]
            /\ UNCHANGED <<cache, saveTimeout>>
       ELSE /\ reqs' = [reqs EXCEPT ![i] =
                          [@ EXCEPT !.pc = "backoff",
                                    !.errs = Append(@, o),
                                    !.failAt = now,
                                    !.wakeAt = now + BackoffDelay(attempt)]]
            /\ last' = [op |-> "backoff", slot |-> i, attempt |-> attempt]
            /\ UNCHANGED <<cache, saveTimeout, disk, page>>

\* one upstream attempt ends with outcome o (lines 136-163); the timeout
\* callback runs no earlier than its delay after the attempt started
Settle(i, o) ==
    /\ reqs[i].pc = "fetching"
    /\ o.kind = "timeout" => now - reqs[i].startAt >= UPSTREAM_TIMEOUT_MS
    /\ IF o.kind = "ok" THEN Resolved(i, o.raw) ELSE Rejected(i, o)
    /\ UNCHANGED <<now, rateBuckets, checks, disk, page>>

\* the backoff timer fires and the loop starts the next attempt (186, 172-174)
Wake(i) ==
    /\ reqs[i].pc = "backoff"
    /\ now >= reqs[i].wakeAt
    /\ reqs' = [reqs EXCEPT ![i] =
                  [@ EXCEPT !.pc = "fetching",
                            !.attempt = @ + 1,
                            !.startAt = now]]
    /\ last' = [op |-> "attempt", slot |-> i, ip |-> reqs[i].ip,
                key |-> reqs[i].key, attempt |-> reqs[i].attempt + 1]
    /\ UNCHANGED <<now, cache, rateBuckets, saveTimeout, checks, disk, page>>

\* two requests that pass validation and one that fails each rule
HandlerInputs ==
    {r \in RequestInputs :
        \/ r.run = <<"0","3">> /\ r.param \in validParams
        \/ r.station = <<"J","F","K">> /\ r.run = <<"1","2">> /\ r.param \in validParams
        \/ r.station = <<"J","F","K">> /\ r.run = <<"0","3">>}

HandlerClients == {"ipA"}

HandlerOutcomes ==
    {[kind |-> "status", code |-> c] : c \in {404, 503}}
    \cup {[kind |-> "ok", raw |-> r] : r \in {RawWith(9), RawWith(10)}}

RequestAny ==
    \E i \in 1..MaxRequests, ip \in HandlerClients, r \in HandlerInputs :
        Request(i, ip, r)

SettleAny == \E i \in 1..MaxRequests, o \in HandlerOutcomes : Settle(i, o)

WakeAny == \E i \in 1..MaxRequests : Wake(i)

TickHandler == TickTo(HandlerMaxTime)

Next == RequestAny \/ SettleAny \/ WakeAny \/ TickHandler \/ SaveTimerFires

Spec == Init /\ [][Next]_vars

---------------------------------------------------------------------------
(* One request at a time, every upstream outcome: the retry policy *)

RetryInput ==
    [station |-> <<"J","F","K">>, run |-> <<"0","3">>,
     param |-> <<"3","h","r","l","y","-","T","M","P">>,
     date |-> <<"2","0","2","6","-","0","1","-","0","5">>]

RequestOne == Request(1, "ipA", RetryInput)

SettleOne == \E o \in Outcomes : Settle(1, o)

WakeOne == Wake(1)

TickRetry == TickTo(RetryMaxTime)

NextRetry == RequestOne \/ SettleOne \/ WakeOne \/ TickRetry \/ SaveTimerFires

SpecRetry == Init /\ [][NextRetry]_vars

---------------------------------------------------------------------------
(* The cache store on its own: any sequence of get and put *)

Get(key) ==
    LET g == GetFromCache(cache, key, now)
    IN /\ cache' = g.cache
       /\ last' = [op |-> "get", key |-> key, ret |-> g.ret,
                    found |-> key \in CacheKeys(cache)]
       /\ UNCHANGED <<now, rateBuckets, saveTimeout, reqs, checks,
                      disk, page>>

Put(key, data) ==
    /\ cache' = SetInCache(cache, key, data, now)
    /\ saveTimeout' = SaveCacheToDisk(now)
    /\ last' = [op |-> "put", key |-> key, data |-> data,
                 evicted |-> EvictedKeys(cache)]
    /\ UNCHANGED <<now, rateBuckets, reqs, checks, disk, page>>

GetAny == \E key \in Keys : Get(key)

PutAny == \E key \in Keys, data \in CompleteResults : Put(key, data)

TickCache == TickTo(CacheMaxTime)

NextCache == GetAny \/ PutAny \/ TickCache \/ SaveTimerFires

SpecCache == Init /\ [][NextCache]_vars

---------------------------------------------------------------------------
(* Properties of the cache store *)

EntryOf(c, key) == c[CacheIndex(c, key)]

\* C2: get(key) never returns the result of an entry whose expiry is earlier
\* than now: such a get returns null and deletes the entry, so the store is
\* one smaller and a second get of the key finds no entry; and whatever a
\* get returns is the data of an entry of that key that has not expired.
C2_LazyExpiry ==
    [][last'.op = "get" =>
        LET k == last'.key IN
            /\ (k \in CacheKeys(cache) /\ EntryOf(cache, k).expiry < now) =>
                  /\ last'.ret = Null
                  /\ Len(cache') = Len(cache) - 1
                  /\ k \notin CacheKeys(cache')
                  /\ GetFromCache(cache', k, now').ret = Null
                  /\ GetFromCache(cache', k, now').cache = cache'
            /\ last'.ret # Null =>
                  /\ k \in CacheKeys(cache)
                  /\ EntryOf(cache, k).expiry >= now
                  /\ last'.ret = EntryOf(cache, k).data]_vars

\* C2 witness: a get found an entry, returned null and the entry is gone
C2_Witness ==
    /\ last.op = "get"
    /\ last.found
    /\ last.ret = Null
    /\ last.key \notin CacheKeys(cache)

\* C3: after any sequence of put and get operations the store holds at most
\* CACHE_MAX_ENTRIES entries.
C3_SizeBound == Len(cache) <= CACHE_MAX_ENTRIES

\* C3 witness: a put that found the store full has evicted, and the store is
\* at its maximum again
C3_Witness ==
    /\ last.op = "put"
    /\ last.evicted # {}
    /\ Len(cache) = CACHE_MAX_ENTRIES

\* Math.ceil(CACHE_MAX_ENTRIES * 0.1), stated without the code's arithmetic
TenthOfMax ==
    CHOOSE n \in 0..CACHE_MAX_ENTRIES :
        10 * n >= CACHE_MAX_ENTRIES /\ 10 * (n - 1) < CACHE_MAX_ENTRIES

\* C4: a put that finds the store at the maximum removes exactly a tenth of
\* the maximum (rounded up), these being entries with the smallest cachedAt;
\* every other entry is kept as it was, and the entry being put is present
\* afterwards, stamped with the time of the put.
C4_EvictOldestTenth ==
    [][(last'.op = "put" /\ Len(cache) >= CACHE_MAX_ENTRIES) =>
        LET k == last'.key IN
            /\ k \in CacheKeys(cache')
            /\ EntryOf(cache', k).data = last'.data
            /\ EntryOf(cache', k).cachedAt = now
            /\ EntryOf(cache', k).expiry = now + CACHE_TTL_MS
            /\ \E V \in SUBSET CacheKeys(cache) :
                  /\ Cardinality(V) = TenthOfMax
                  /\ \A v \in V, s \in CacheKeys(cache) \ V :
                        EntryOf(cache, v).cachedAt <= EntryOf(cache, s).cachedAt
                  /\ CacheKeys(cache') = (CacheKeys(cache) \ V) \cup {k}
                  /\ \A s \in CacheKeys(cache) \ (V \cup {k}) :
                        EntryOf(cache', s) = EntryOf(cache, s)]_vars

\* C4 witness: a put found the store full, evicted, and its entry is present
C4_Witness ==
    /\ last.op = "put"
    /\ last.evicted # {}
    /\ last.key \in CacheKeys(cache)
    /\ last.key \notin last.evicted

---------------------------------------------------------------------------
(* The admission controller on its own: any sequence of checks *)

RECURSIVE TotalChecks(_)
TotalChecks(S) ==
    IF S = {} THEN 0
    ELSE LET ip == CHOOSE x \in S : TRUE
         IN Len(checks[ip]) + TotalChecks(S \ {ip})

Check(ip) ==
    LET r == CheckApiRateLimit(rateBuckets, ip, now)
    IN /\ TotalChecks(Clients) < MaxChecks
       /\ rateBuckets' = r.buckets
       /\ checks' = [checks EXCEPT ![ip] = Append(@, [at |-> now, ok |-> r.ok])]
       /\ last' = [op |-> "check", ip |-> ip, ok |-> r.ok]
       /\ UNCHANGED <<now, cache, saveTimeout, reqs, disk, page>>

CheckAny == \E ip \in Clients : Check(ip)

TickBucket == TickTo(BucketMaxTime)

NextBucket == CheckAny \/ TickBucket

SpecBucket == Init /\ [][NextBucket]_vars

\* the first n recorded checks of a client came less than a refill interval
\* apart from one another
Burst(h, n) ==
    \A j \in 2..n : h[j].at - h[j - 1].at < REFILL_INTERVAL

\* C7: for a client that had no bucket, of consecutive checks made less than
\* a refill interval apart the first BUCKET_MAX are permitted and the next
\* one is denied.
C7_BurstOfCapacity ==
    \A ip \in Clients :
        \A n \in 1..Min(Len(checks[ip]), BUCKET_MAX + 1) :
            Burst(checks[ip], n) => (checks[ip][n].ok <=> n <= BUCKET_MAX)

\* C7 witness: a burst of BUCKET_MAX + 1 checks spread over a whole refill
\* interval or more, the last one denied
C7_Witness ==
    \E ip \in Clients :
        /\ Len(checks[ip]) = BUCKET_MAX + 1
        /\ Burst(checks[ip], BUCKET_MAX + 1)
        /\ checks[ip][BUCKET_MAX + 1].at - checks[ip][1].at >= REFILL_INTERVAL
        /\ ~checks[ip][BUCKET_MAX + 1].ok

\* the bucket a check of ip starts from: the stored one, or a new full one
BucketBefore(ip) ==
    IF ip \in DOMAIN rateBuckets THEN rateBuckets[ip]
    ELSE [tokens |-> BUCKET_MAX, lastRefill |-> now]

\* C8 (state part): every bucket holds between 0 and BUCKET_MAX tokens
C8_TokensInRange ==
    \A ip \in DOMAIN rateBuckets :
        rateBuckets[ip].tokens >= 0 /\ rateBuckets[ip].tokens <= BUCKET_MAX

\* C8 (step part): a check adds floor(elapsed seconds) * REFILL_RATE tokens,
\* capped at BUCKET_MAX, permits iff a token is then held and takes one when
\* it permits; after BUCKET_MAX / REFILL_RATE seconds without a check the
\* bucket holds exactly BUCKET_MAX before the token is taken; no other step
\* changes a bucket.
C8_CheckStep ==
    IF last'.op = "check"
    THEN LET ip == last'.ip
             old == BucketBefore(ip)
             elapsed == now - old.lastRefill
             refilled == Min(BUCKET_MAX,
                             old.tokens + (elapsed \div 1000) * REFILL_RATE)
         IN /\ last'.ok <=> refilled > 0
            /\ rateBuckets'[ip].tokens = refilled - (IF last'.ok THEN 1 ELSE 0)
            /\ rateBuckets'[ip].lastRefill = now
            /\ elapsed >= (BUCKET_MAX \div REFILL_RATE) * 1000 =>
                  rateBuckets'[ip].tokens = BUCKET_MAX - 1
    ELSE rateBuckets' = rateBuckets

\* C8: in every reachable state every bucket has 0 <= tokens <= BUCKET_MAX,
\* and tokens change only as C8_CheckStep says.
C8_TokenBucket == [](C8_TokensInRange) /\ [][C8_CheckStep]_vars

\* C8 witness: a bucket that was emptied is checked again BUCKET_MAX /
\* REFILL_RATE seconds or more later and holds BUCKET_MAX - 1 after the check
C8_Witness ==
    \E ip \in DOMAIN rateBuckets :
        LET h == checks[ip]
        IN /\ Len(h) = BUCKET_MAX + 2
           /\ ~h[BUCKET_MAX + 1].ok
           /\ h[BUCKET_MAX + 2].at - h[BUCKET_MAX + 1].at
                 >= (BUCKET_MAX \div REFILL_RATE) * 1000
           /\ rateBuckets[ip].tokens = BUCKET_MAX - 1

---------------------------------------------------------------------------
(* Properties of the data endpoint *)

\* the step just taken was the start of a request that passed validation:
\* it ends in a HIT, a 429 or the first upstream attempt
LookupStep ==
    \/ last'.op = "attempt" /\ last'.attempt = 1
    \/ last'.op = "response" /\ last'.status = 429
    \/ last'.op = "response" /\ last'.status = 200 /\ last'.xcache = "HIT"

\* C1: a request whose cache key is present and unexpired is answered from
\* the store (HIT, with the entry's data) and makes no admission check: no
\* bucket is created or changed, whatever the client's bucket holds; and a
\* HIT is only ever given for such a key.
C1_HitSkipsAdmission ==
    [][LookupStep =>
        LET k == last'.key
            fresh == k \in CacheKeys(cache) /\ EntryOf(cache, k).expiry >= now
            hit == last'.op = "response" /\ last'.status = 200
        IN /\ fresh <=> hit
           /\ hit => /\ last'.body = EntryOf(cache, k).data
                     /\ rateBuckets' = rateBuckets
                     /\ cache' = cache]_vars

\* C1 witness: a HIT was answered to a client whose bucket holds 0 tokens
C1_Witness ==
    /\ last.op = "response"
    /\ last.status = 200
    /\ last.xcache = "HIT"
    /\ last.ip \in DOMAIN rateBuckets
    /\ rateBuckets[last.ip].tokens = 0

\* the step just taken answered a fetch that resolved
FetchedStep ==
    /\ last'.op = "response"
    /\ last'.status = 200
    /\ last'.xcache \in {"MISS", "INCOMPLETE"}

\* C5 as claimed: the request for the key that follows an INCOMPLETE answer is
\* not served from the store; it goes on to admission and the upstream fetch.
C5_NextRequestRefetches ==
    [][(/\ last.op = "response"
        /\ last.status = 200
        /\ last.xcache = "INCOMPLETE"
        /\ LookupStep
        /\ last'.key = last.key) => last'.op # "response" \/ last'.status # 200]_vars

\* C5 (amended): a fetched result with fewer than MIN_MEMBERS member series
\* (labels other than Mean) is answered 200 INCOMPLETE and changes neither the
\* store nor the snapshot timer: no entry is created for the key and an entry
\* that another request stored for it meanwhile stays as it is; a key that
\* was absent is still absent for the next lookup.
C5_IncompleteNotCached ==
    [][FetchedStep =>
        LET k == last'.key
            members == Cardinality(DOMAIN last'.body \ {"Mean"})
        IN /\ last'.xcache = "INCOMPLETE" <=> members < MIN_MEMBERS
           /\ last'.xcache = "INCOMPLETE" =>
                 /\ cache' = cache
                 /\ saveTimeout' = saveTimeout
                 /\ k \notin CacheKeys(cache) =>
                       GetFromCache(cache', k, now').ret = Null]_vars

\* C5 witness: an INCOMPLETE answer with 9 member series was given while the
\* store holds an entry for the key that another request put meanwhile
C5_Witness ==
    /\ last.op = "response"
    /\ last.status = 200
    /\ last.xcache = "INCOMPLETE"
    /\ Cardinality(DOMAIN last.body \ {"Mean"}) = 9
    /\ last.key \in CacheKeys(cache)
    /\ MemberCount(EntryOf(cache, last.key).data) >= 10

\* C6 as claimed: when a request is answered 502 the store is the same as it
\* was just after that request's own cache lookup.
C6_SameAsAfterLookup ==
    (last.op = "response" /\ last.status = 502) => cache = last.lookedUp

\* a step of a request after its cache lookup other than a successful fetch:
\* a failed attempt, the end of a backoff wait, or the 502 answer
FailurePathStep ==
    \/ last'.op = "backoff"
    \/ last'.op = "attempt" /\ last'.attempt > 1
    \/ last'.op = "response" /\ last'.status = 502

\* C6 (amended): a request whose upstream fetch fails is answered 502 and
\* calls no put: no step that request takes after its cache lookup (failed
\* attempts, backoff waits, the 502 answer) changes the set of entries, any
\* entry's data, cachedAt or expiry, or the snapshot timer.
C6_FailureLeavesCache ==
    [][FailurePathStep => (cache' = cache /\ saveTimeout' = saveTimeout)]_vars

\* C6 witness: a 502 was answered while the store holds an entry of that key
\* which was not there at the request's own lookup
C6_Witness ==
    /\ last.op = "response"
    /\ last.status = 502
    /\ last.key \in CacheKeys(cache)
    /\ cache # last.lookedUp

\* the three rules a request must pass, as the interface states them
WellFormed(r) ==
    /\ Len(r.station) \in 3..4
    /\ \A n \in 1..Len(r.station) : IsLetter(r.station[n])
    /\ r.run \in {<<"0","3">>, <<"0","9">>, <<"1","5">>, <<"2","1">>}
    /\ r.param \in validParams

\* C14: a request whose station is not 3-4 letters, whose run is not one of
\* 03/09/15/21 or whose parameter is not enumerated is answered 400 and
\* nothing else happens: the store, every bucket, the snapshot timer and the
\* requests in flight are unchanged; a request that reaches the cache lookup
\* passed all three rules.
C14_InvalidShortCircuits ==
    [][/\ (last'.op = "response" /\ last'.status = 400) =>
             /\ ~WellFormed(last'.input)
             /\ cache' = cache
             /\ rateBuckets' = rateBuckets
             /\ saveTimeout' = saveTimeout
             /\ reqs' = reqs
       /\ LookupStep =>
             \E r \in RequestInputs :
                 /\ WellFormed(r)
                 /\ last'.key = CacheKeyOf(r.date, r.run, r.station, r.param)]_vars

\* C14 witness: a request with an invalid run was answered 400 while the
\* store held an entry and the client had a bucket
C14_Witness ==
    /\ last.op = "response"
    /\ last.status = 400
    /\ last.error = "Invalid run time"
    /\ cache # <<>>
    /\ last.ip \in DOMAIN rateBuckets

\* C15 as claimed: a request answered 429 leaves the cache store unchanged.
C15_DeniedLeavesCache ==
    [][(last'.op = "response" /\ last'.status = 429) => cache' = cache]_vars

\* C15 (amended): a request denied by the admission check is answered 429,
\* starts no upstream attempt and is not kept in flight, and puts nothing;
\* the cache lookup that precedes the check is its only cache interaction:
\* it removes the entry of the requested key when that entry has expired and
\* changes nothing else.  The denied check leaves the client without tokens.
C15_DeniedNoFetch ==
    [][(last'.op = "response" /\ last'.status = 429) =>
        LET k == last'.key
            expired == k \in CacheKeys(cache) /\ now > EntryOf(cache, k).expiry
        IN /\ reqs' = reqs
           /\ saveTimeout' = saveTimeout
           /\ k \in CacheKeys(cache) => expired
           /\ cache' = IF expired THEN CacheDelete(cache, k) ELSE cache
           /\ rateBuckets'[last'.ip].tokens = 0]_vars

\* C15 witness: a denied request found the expired entry of its key, which
\* the lookup removed, while another entry stayed in the store
C15_Witness ==
    /\ last.op = "response"
    /\ last.status = 429
    /\ last.found
    /\ last.key \notin CacheKeys(cache)
    /\ cache # <<>>

\* two requests name the same resource: equal date, run and parameter, and
\* stations equal up to letter case
SameLogicalFields(r, q) ==
    /\ r.date = q.date
    /\ r.run = q.run
    /\ r.param = q.param
    /\ ToUpperCase(r.station) = ToUpperCase(q.station)

\* C16 as claimed: a request that passes validation is a HIT whenever the
\* store holds an unexpired entry put for a request with the same four
\* logical fields, the station compared without regard to case.
C16_SameFieldsSameKey ==
    [][LookupStep =>
        \A r \in ValidInputs, q \in ValidInputs :
            (/\ last'.key = CacheKeyOf(r.date, r.run, r.station, r.param)
             /\ SameLogicalFields(r, q)
             /\ CacheKeyOf(q.date, q.run, q.station, q.param) \in CacheKeys(cache)
             /\ EntryOf(cache, CacheKeyOf(q.date, q.run, q.station, q.param)).expiry >= now)
            => (last'.op = "response" /\ last'.status = 200)]_vars

---------------------------------------------------------------------------
(* Properties of the retry policy *)

\* a failure the design classifies transient: timeout, connection reset,
\* upstream 5xx
Transient(o) ==
    \/ o.kind = "timeout"
    \/ o.kind = "neterr" /\ o.msg = MsgReadReset
    \/ o.kind = "status" /\ o.code \in 500..599

LastOf(q) == q[Len(q)]

C11_AtMostRetries ==
    \A i \in 1..MaxRequests :
        reqs[i].pc # "idle" =>
            /\ reqs[i].attempt \in 1..RETRIES
            /\ Len(reqs[i].errs) \in {reqs[i].attempt - 1, reqs[i].attempt}
            /\ reqs[i].pc = "backoff" => reqs[i].attempt < RETRIES

\* C11 (step part): when attempt RETRIES fails the handler answers 502 in the
\* same step, carrying the message of that last failure
C11_LastErrorStep ==
    /\ (last'.op = "attempt") => last'.attempt <= RETRIES
    /\ (/\ last'.op \in {"response", "backoff"}
        /\ reqs[last'.slot].pc = "fetching"
        /\ reqs[last'.slot].attempt = RETRIES
        /\ reqs'[last'.slot].pc # "fetching") =>
           /\ last'.op = "response"
           /\ last'.status \in {200, 502}
           /\ now' = now
           /\ last'.status = 502 =>
                 /\ last'.attempt = RETRIES
                 /\ Len(last'.errs) = RETRIES
                 /\ last'.details = ErrorMessage(LastOf(last'.errs))

\* C11: at most RETRIES upstream attempts per call; when all fail with
\* transient errors the call fails with the error of the last attempt, with
\* no backoff wait after it, and the handler answers 502.
C11_AtMostThreeAttempts == [](C11_AtMostRetries) /\ [][C11_LastErrorStep]_vars

\* C11 witness: three transient failures in a row were answered 502 with the
\* message of the third
C11_Witness ==
    /\ last.op = "response"
    /\ last.status = 502
    /\ last.attempt = RETRIES
    /\ \A n \in 1..RETRIES : Transient(last.errs[n])
    /\ last.errs[1] # last.errs[RETRIES]
    /\ last.details = ErrorMessage(last.errs[RETRIES])

\* C10 (state part): attempt 1 starts when the request arrives
C10_NoWaitBeforeFirst ==
    \A i \in 1..MaxRequests :
        (reqs[i].pc = "fetching" /\ reqs[i].attempt = 1) =>
            reqs[i].startAt = reqs[i].arrivedAt

\* C10 (step part): attempt n + 1 starts no earlier than 2^(n-1) seconds
\* after attempt n failed; a call that succeeds on attempt 3 after a timeout
\* and a 503 returns that attempt's result 3 s or more after it began.
C10_BackoffStep ==
    /\ (last'.op = "attempt" /\ last'.attempt > 1) =>
          LET n == reqs[last'.slot].attempt
          IN /\ last'.attempt = n + 1
             /\ now' - reqs[last'.slot].failAt >= Pow2(n - 1) * 1000
    /\ (FetchedStep /\ last'.attempt = 3) =>
          (last'.errs = <<[kind |-> "timeout"], [kind |-> "status", code |-> 503]>>
              => now' - last'.arrivedAt >= 3000)

\* C10: no wait before attempt 1, exponential waits between attempts
C10_Backoff == [](C10_NoWaitBeforeFirst) /\ [][C10_BackoffStep]_vars

\* C10 witness: timeout, 503, then success on attempt 3
C10_Witness ==
    /\ last.op = "response"
    /\ last.status = 200
    /\ last.xcache \in {"MISS", "INCOMPLETE"}
    /\ last.attempt = 3
    /\ last.errs = <<[kind |-> "timeout"], [kind |-> "status", code |-> 503]>>
    /\ now - last.arrivedAt >= 3000


---------------------------------------------------------------------------
(* TTL policy: getCacheTTL, part_001 lines 40-61 *)

HOUR_MS == 3600000
HOURS_PER_DAY == 24
PROCESSING_DELAY_HOURS == 2
MIN_TTL_HOURS == 1
MAX_TTL_HOURS == 8

\* the instants the TTL model draws `now` from: k * TTLStepMs, k in 0..TTLSlots
TTLStepMs == 1800000
TTLSlots == 60

MODEL_RUNS == <<3, 9, 15, 21>>

Max(a, b) == IF a > b THEN a ELSE b

\* Date.prototype.getUTCHours of the instant t
GetUTCHours(t) == (t \div HOUR_MS) % HOURS_PER_DAY

\* Array.prototype.indexOf (0-based, -1 when absent)
IndexOf(arr, x) ==
    IF \E i \in 1..Len(arr) : arr[i] = x
    THEN (CHOOSE i \in 1..Len(arr) : arr[i] = x /\ \A j \in 1..(i - 1) : arr[j] # x) - 1
    ELSE -1

\* MODEL_RUNS[(runIndex + 1) % MODEL_RUNS.length]
NextRunHour(runHour) ==
    MODEL_RUNS[((IndexOf(MODEL_RUNS, runHour) + 1) % Len(MODEL_RUNS)) + 1]

\* hoursUntilNext of getCacheTTL
HoursUntilNext(runHour, t) ==
    LET currentUTC == GetUTCHours(t)
        nextRunHour == NextRunHour(runHour)
    IN IF nextRunHour > currentUTC
       THEN nextRunHour - currentUTC + PROCESSING_DELAY_HOURS
       ELSE (HOURS_PER_DAY - currentUTC) + nextRunHour + PROCESSING_DELAY_HOURS

\* (mutant) the hours are not clamped
GetCacheTTL_NoClamp(runHour, t) == HoursUntilNext(runHour, t) * HOUR_MS

\* getCacheTTL(runHour) called at the instant t
GetCacheTTL(runHour, t) ==
    LET ttlHours == Max(MIN_TTL_HOURS, Min(MAX_TTL_HOURS, HoursUntilNext(runHour, t)))
    IN ttlHours * HOUR_MS

\* the clock reads any of the drawn instants; nothing else has happened
InitTTL ==
    /\ now \in {k * TTLStepMs : k \in 0..TTLSlots}
    /\ cache = <<>>
    /\ rateBuckets = <<>>
    /\ saveTimeout = NoTimer
    /\ reqs = [i \in 1..MaxRequests |-> IdleReq]
    /\ disk = NoDisk
    /\ page = StartPage
    /\ last = [op |-> "init"]
    /\ checks = [ip \in Clients |-> <<>>]

\* one call of getCacheTTL
ComputeTTL(runHour) ==
    /\ last' = [op |-> "ttl", run |-> runHour, at |-> now,
                ttl |-> GetCacheTTL(runHour, now)]
    /\ UNCHANGED <<now, cache, rateBuckets, saveTimeout, reqs, checks,
                   disk, page>>

ComputeTTLAny == \E n \in 1..Len(MODEL_RUNS) : ComputeTTL(MODEL_RUNS[n])

NextTTL == ComputeTTLAny

SpecTTL == InitTTL /\ [][NextTTL]_vars

\* C12: for every scheduled run and every instant the TTL is at least 1 hour
\* and at most 8 hours, and it is determined by the run and the instant: a
\* second call with the same run at the same instant returns the same value.
C12_TTLInRange ==
    [][last'.op = "ttl" =>
        /\ last'.ttl >= MIN_TTL_HOURS * HOUR_MS
        /\ last'.ttl <= MAX_TTL_HOURS * HOUR_MS
        /\ (last.op = "ttl" /\ last.run = last'.run /\ last.at = last'.at)
              => last'.ttl = last.ttl
        /\ \A t \in {k * TTLStepMs : k \in 0..TTLSlots} :
              GetUTCHours(t) = GetUTCHours(last'.at)
                 => GetCacheTTL(last'.run, t) = last'.ttl]_vars

\* C12 witness: a call whose hours until the next run exceed the ceiling
\* returned exactly the ceiling
C12_Witness ==
    /\ last.op = "ttl"
    /\ HoursUntilNext(last.run, last.at) > MAX_TTL_HOURS
    /\ last.ttl = MAX_TTL_HOURS * HOUR_MS

\* hours from the UTC hour of t until the data of the run after runHour is
\* expected ready: that run's hour plus the processing delay, modulo a day
HoursUntilReady(runHour, t) ==
    (NextRunHour(runHour) + PROCESSING_DELAY_HOURS + HOURS_PER_DAY - GetUTCHours(t))
        % HOURS_PER_DAY

\* C13 as claimed: the TTL equals the time remaining until the data of the
\* run following the fetched run is expected ready, clamped to [1 h, 8 h]
\* (at the ready hour itself the remaining time is taken as 0 or as a day).
C13_TTLUntilNextReady ==
    [][last'.op = "ttl" =>
        LET d == HoursUntilReady(last'.run, last'.at)
            Clamp(h) == Max(MIN_TTL_HOURS, Min(MAX_TTL_HOURS, h)) * HOUR_MS
        IN \/ last'.ttl = Clamp(d)
           \/ d = 0 /\ last'.ttl = Clamp(HOURS_PER_DAY)]_vars


---------------------------------------------------------------------------
(* The series processor on its own: processData on drawn upstream bodies *)

\* timestamps of the drawn points: k * 3 for k in 0..MaxTimeSteps
MaxTimeSteps == 1

PointTimes == {k * 3 : k \in 0..MaxTimeSteps}

\* raw values: decimal text of 10, 20, 30, and text parseFloat rejects
PointValues ==
    {[numeric |-> TRUE, n |-> v] : v \in {10, 20, 30}}
    \cup {[numeric |-> FALSE, n |-> 0]}

\* the series of at most n points whose timestamps are pairwise different,
\* in any order
SeriesUpTo(n) ==
    UNION {{s \in [1..k -> PointTimes \X PointValues] :
               \A a \in 1..k, b \in 1..k : a # b => s[a][1] # s[b][1]} :
           k \in 0..n}

\* bodies with two members and a label that carries no data
ProcessRaws ==
    {[A |-> [data |-> a], B |-> [data |-> b], C |-> [data |-> <<>>]] :
        a \in SeriesUpTo(Cardinality(PointTimes)), b \in SeriesUpTo(1)}

InitProcess ==
    /\ now = 0
    /\ cache = <<>>
    /\ rateBuckets = <<>>
    /\ saveTimeout = NoTimer
    /\ reqs = [i \in 1..MaxRequests |-> IdleReq]
    /\ disk = NoDisk
    /\ page = StartPage
    /\ last \in {[op |-> "raw", raw |-> r] : r \in ProcessRaws}
    /\ checks = [ip \in Clients |-> <<>>]

\* processData is applied to the body
Process ==
    /\ last.op = "raw"
    /\ last' = [op |-> "processed", raw |-> last.raw, out |-> ProcessData(last.raw)]
    /\ UNCHANGED <<now, cache, rateBuckets, saveTimeout, reqs, checks,
                   disk, page>>

NextProcess == Process

SpecProcess == InitProcess /\ [][NextProcess]_vars

\* the timestamps occurring in the series of label l
TimesOf(raw, l) == {raw[l].data[j][1] : j \in 1..Len(raw[l].data)}

\* the parsed value of label l at timestamp t
ValueAt(raw, l, t) ==
    ParseFloatOrZero(
        raw[l].data[CHOOSE j \in 1..Len(raw[l].data) : raw[l].data[j][1] = t][2])

RECURSIVE SumOver(_, _, _)
SumOver(raw, labels, t) ==
    IF labels = {} THEN 0
    ELSE LET l == CHOOSE x \in labels : TRUE
         IN ValueAt(raw, l, t) + SumOver(raw, labels \ {l}, t)

\* C17: the output has a Mean series exactly when some label has a non-empty
\* series; Mean has exactly one point per distinct timestamp occurring in any
\* member, and its value there is the sum of the values of the members that
\* have a point at that timestamp divided by the number of such members.
C17_MeanCorrect ==
    last.op = "processed" =>
        LET raw == last.raw
            out == last.out
            times == UNION {TimesOf(raw, l) : l \in DOMAIN raw}
        IN /\ ("Mean" \in DOMAIN out) <=> (\E l \in DOMAIN raw : Len(raw[l].data) > 0)
           /\ "Mean" \in DOMAIN out =>
                /\ Len(out.Mean) = Cardinality(times)
                /\ {out.Mean[i].x : i \in 1..Len(out.Mean)} = times
                /\ \A i \in 1..Len(out.Mean) :
                      LET t == out.Mean[i].x
                          having == {l \in DOMAIN raw : t \in TimesOf(raw, l)}
                      IN /\ out.Mean[i].y.den = Cardinality(having)
                         /\ out.Mean[i].y.num = SumOver(raw, having, t)

\* C17 witness: A = [(0,10),(3,20)], B = [(0,30)] gave Mean 40/2 at t = 0
\* and 20/1 at t = 3
C17_Witness ==
    /\ last.op = "processed"
    /\ last.raw.A.data = << <<0, [numeric |-> TRUE, n |-> 10]>>,
                            <<3, [numeric |-> TRUE, n |-> 20]>> >>
    /\ last.raw.B.data = << <<0, [numeric |-> TRUE, n |-> 30]>> >>
    /\ last.out.Mean = <<[x |-> 0, y |-> [num |-> 40, den |-> 2]],
                         [x |-> 3, y |-> [num |-> 20, den |-> 1]]>>


---------------------------------------------------------------------------
(* Decoding of the upstream body: fetchFromNOAA, part_001 lines 145-154.   *)
(* JSON texts are character sequences without insignificant whitespace;    *)
(* JSON values are tagged records.                                         *)

JNum(n) == [t |-> "num", n |-> n]
JStr(s) == [t |-> "str", s |-> s]
JTrue == [t |-> "true"]
JFalse == [t |-> "false"]
JNull == [t |-> "null"]
JArr(items) == [t |-> "arr", items |-> items]
JObj(keys, vals) == [t |-> "obj", keys |-> keys, vals |-> vals]

Quote == "\""
Backslash == "\\"
Digits == {"0","1","2","3","4","5","6","7","8","9"}
WordTrue == <<"t","r","u","e">>
WordFalse == <<"f","a","l","s","e">>
WordNull == <<"n","u","l","l">>
ObjectObject == <<"[","o","b","j","e","c","t"," ","O","b","j","e","c","t","]">>

\* the escapes JSON.stringify applies to the characters of a string
RECURSIVE EscapeChars(_)
EscapeChars(s) ==
    IF s = <<>> THEN <<>>
    ELSE (IF Head(s) \in {Quote, Backslash} THEN <<Backslash, Head(s)>> ELSE <<Head(s)>>)
         \o EscapeChars(Tail(s))

\* JSON.stringify(v)
RECURSIVE JSONStringify(_)
RECURSIVE StringifyItems(_)
RECURSIVE StringifyMembers(_, _)
JSONStringify(v) ==
    CASE v.t = "num"   -> NumToStr(v.n)
      [] v.t = "str"   -> <<Quote>> \o EscapeChars(v.s) \o <<Quote>>
      [] v.t = "true"  -> WordTrue
      [] v.t = "false" -> WordFalse
      [] v.t = "null"  -> WordNull
      [] v.t = "arr"   -> <<"[">> \o StringifyItems(v.items) \o <<"]">>
      [] v.t = "obj"   -> <<"{">> \o StringifyMembers(v.keys, v.vals) \o <<"}">>

StringifyItems(items) ==
    IF items = <<>> THEN <<>>
    ELSE JSONStringify(Head(items))
         \o (IF Len(items) > 1 THEN <<",">> \o StringifyItems(Tail(items)) ELSE <<>>)

StringifyMembers(keys, vals) ==
    IF keys = <<>> THEN <<>>
    ELSE <<Quote>> \o EscapeChars(Head(keys)) \o <<Quote, ":">> \o JSONStringify(Head(vals))
         \o (IF Len(keys) > 1 THEN <<",">> \o StringifyMembers(Tail(keys), Tail(vals))
             ELSE <<>>)

\* the result of a parse that throws SyntaxError
SyntaxError == [ok |-> FALSE]

DigitVal(ch) == CHOOSE d \in 0..9 : DigitChar(d) = ch

RECURSIVE ParseDigits(_, _, _)
ParseDigits(s, i, acc) ==
    IF i <= Len(s) /\ s[i] \in Digits
    THEN ParseDigits(s, i + 1, acc * 10 + DigitVal(s[i]))
    ELSE [ok |-> TRUE, val |-> JNum(acc), next |-> i]

\* a number starting at s[i], a digit: no leading zero
ParseNumber(s, i) ==
    IF s[i] = "0" THEN [ok |-> TRUE, val |-> JNum(0), next |-> i + 1]
    ELSE ParseDigits(s, i, 0)

\* the characters of a string, from just after its opening quote
RECURSIVE ParseChars(_, _, _)
ParseChars(s, i, acc) ==
    IF i > Len(s) THEN SyntaxError
    ELSE IF s[i] = Quote THEN [ok |-> TRUE, val |-> JStr(acc), next |-> i + 1]
    ELSE IF s[i] = Backslash
    THEN IF i + 1 <= Len(s) /\ s[i + 1] \in {Quote, Backslash}
         THEN ParseChars(s, i + 2, Append(acc, s[i + 1]))
         ELSE SyntaxError
    ELSE ParseChars(s, i + 1, Append(acc, s[i]))

StartsWith(s, i, word) ==
    /\ i + Len(word) - 1 <= Len(s)
    /\ SubSeq(s, i, i + Len(word) - 1) = word

\* one JSON value starting at s[i]: the value and the position after it
RECURSIVE ParseValue(_, _)
RECURSIVE ParseItems(_, _, _)
RECURSIVE ParseMembers(_, _, _, _)
ParseValue(s, i) ==
    IF i > Len(s) THEN SyntaxError
    ELSE IF s[i] \in Digits THEN ParseNumber(s, i)
    ELSE IF s[i] = Quote THEN ParseChars(s, i + 1, <<>>)
    ELSE IF StartsWith(s, i, WordTrue)
    THEN [ok |-> TRUE, val |-> JTrue, next |-> i + Len(WordTrue)]
    ELSE IF StartsWith(s, i, WordFalse)
    THEN [ok |-> TRUE, val |-> JFalse, next |-> i + Len(WordFalse)]
    ELSE IF StartsWith(s, i, WordNull)
    THEN [ok |-> TRUE, val |-> JNull, next |-> i + Len(WordNull)]
    ELSE IF s[i] = "["
    THEN IF i + 1 <= Len(s) /\ s[i + 1] = "]"
         THEN [ok |-> TRUE, val |-> JArr(<<>>), next |-> i + 2]
         ELSE ParseItems(s, i + 1, <<>>)
    ELSE IF s[i] = "{"
    THEN IF i + 1 <= Len(s) /\ s[i + 1] = "}"
         THEN [ok |-> TRUE, val |-> JObj(<<>>, <<>>), next |-> i + 2]
         ELSE ParseMembers(s, i + 1, <<>>, <<>>)
    ELSE SyntaxError

ParseItems(s, i, acc) ==
    LET r == ParseValue(s, i)
    IN IF ~r.ok THEN SyntaxError
       ELSE IF r.next > Len(s) THEN SyntaxError
       ELSE IF s[r.next] = "," THEN ParseItems(s, r.next + 1, Append(acc, r.val))
       ELSE IF s[r.next] = "]"
       THEN [ok |-> TRUE, val |-> JArr(Append(acc, r.val)), next |-> r.next + 1]
       ELSE SyntaxError

ParseMembers(s, i, keys, vals) ==
    IF i > Len(s) \/ s[i] # Quote THEN SyntaxError
    ELSE LET k == ParseChars(s, i + 1, <<>>)
         IN IF ~k.ok THEN SyntaxError
            ELSE IF k.next > Len(s) \/ s[k.next] # ":" THEN SyntaxError
            ELSE LET r == ParseValue(s, k.next + 1)
                 IN IF ~r.ok THEN SyntaxError
                    ELSE IF r.next > Len(s) THEN SyntaxError
                    ELSE IF s[r.next] = ","
                    THEN ParseMembers(s, r.next + 1, Append(keys, k.val.s),
                                      Append(vals, r.val))
                    ELSE IF s[r.next] = "}"
                    THEN [ok |-> TRUE,
                          val |-> JObj(Append(keys, k.val.s), Append(vals, r.val)),
                          next |-> r.next + 1]
                    ELSE SyntaxError

\* JSON.parse of a text: the whole text must be one value
JSONParse(text) ==
    LET r == ParseValue(text, 1)
    IN IF r.ok /\ r.next = Len(text) + 1 THEN [ok |-> TRUE, val |-> r.val]
       ELSE SyntaxError

\* String(v): the text JSON.parse makes of an argument that is not a string
RECURSIVE ToStringJS(_)
RECURSIVE JoinItems(_)
ToStringJS(v) ==
    CASE v.t = "num"   -> NumToStr(v.n)
      [] v.t = "str"   -> v.s
      [] v.t = "true"  -> WordTrue
      [] v.t = "false" -> WordFalse
      [] v.t = "null"  -> WordNull
      [] v.t = "arr"   -> JoinItems(v.items)
      [] v.t = "obj"   -> ObjectObject

\* Array.prototype.join(','): null elements give the empty text
JoinItems(items) ==
    IF items = <<>> THEN <<>>
    ELSE (IF Head(items).t = "null" THEN <<>> ELSE ToStringJS(Head(items)))
         \o (IF Len(items) > 1 THEN <<",">> \o JoinItems(Tail(items)) ELSE <<>>)

\* the body handling of fetchFromNOAA for a 200 answer: JSON.parse(
\* JSON.parse(data)), on any exception JSON.parse(data), on an exception of
\* that the rejection 'Failed to parse NOAA response'
DecodeBody(data) ==
    LET first == JSONParse(data)
    IN IF ~first.ok THEN [ok |-> FALSE, error |-> MsgParse]
       ELSE LET second == JSONParse(ToStringJS(first.val))
            IN IF second.ok THEN [ok |-> TRUE, val |-> second.val]
               ELSE [ok |-> TRUE, val |-> first.val]


\* arrays the model draws have at most MaxItems elements
MaxItems == 2

JsonScalars == {JNum(1), JStr(<<"a">>), JTrue, JNull}

FlatArrays ==
    UNION {{JArr(items) : items \in [1..k -> JsonScalars]} : k \in 0..MaxItems}

\* structured values: arrays of scalars, arrays of one array, and objects
\* with no member or with the member "A"
StructuredValues ==
    FlatArrays
    \cup {JArr(<<a>>) : a \in {f \in FlatArrays : Len(f.items) <= 1}}
    \cup {JObj(<<>>, <<>>)}
    \cup {JObj(<< <<"A">> >>, <<x>>) : x \in JsonScalars \cup FlatArrays}

\* the body is the JSON text of v, or a JSON string literal holding that text
BodyOf(v, double) ==
    IF double THEN JSONStringify(JStr(JSONStringify(v))) ELSE JSONStringify(v)

InitDecode ==
    /\ now = 0
    /\ cache = <<>>
    /\ rateBuckets = <<>>
    /\ saveTimeout = NoTimer
    /\ reqs = [i \in 1..MaxRequests |-> IdleReq]
    /\ disk = NoDisk
    /\ page = StartPage
    /\ last \in {[op |-> "body", v |-> v, double |-> d] :
                    v \in StructuredValues, d \in BOOLEAN}
    /\ checks = [ip \in Clients |-> <<>>]

\* the 'end' callback of a 200 answer decodes the body
Decode ==
    /\ last.op = "body"
    /\ last' = [op |-> "decoded", v |-> last.v, double |-> last.double,
                res |-> DecodeBody(BodyOf(last.v, last.double))]
    /\ UNCHANGED <<now, cache, rateBuckets, saveTimeout, reqs, checks,
                   disk, page>>

NextDecode == Decode

SpecDecode == InitDecode /\ [][NextDecode]_vars

\* C18 as claimed: for every structured value v the fetch resolves to the
\* same value whether the body is the JSON text of v or a JSON string
\* literal whose content is that text.
C18_DoubleEncodingInsensitive ==
    last.op = "decoded" =>
        last.res = DecodeBody(BodyOf(last.v, ~last.double))


---------------------------------------------------------------------------
(* Startup: the cache is loaded from the snapshot file, part_001 lines     *)
(* 23-38.  The file is drawn: an object whose entries are in file order.   *)

\* the process starts at LoadBootTime; the clock then runs to LoadMaxTime
LoadBootTime == 500
LoadMaxTime == 1500
\* entries in a drawn snapshot file
MaxSnapshotLen == 2

\* expiry stamps before, at and after the start of the process
SnapshotExpiries == {LoadBootTime - TickMs, LoadBootTime, LoadBootTime + TickMs}

SnapshotEntries ==
    {[key |-> k, data |-> Processed[RawWith(10)], expiry |-> x, cachedAt |-> 0] :
        k \in Keys, x \in SnapshotExpiries}

SnapshotFiles ==
    UNION {{f \in [1..n -> SnapshotEntries] :
               \A a \in 1..n, b \in 1..n : a # b => f[a].key # f[b].key} :
           n \in 0..MaxSnapshotLen}

\* (mutant) every entry of the file is loaded
LoadCache_All(file, t) == file

\* Object.entries(json).forEach: entries with val.expiry > now are set
LoadCache(file, t) ==
    LET Keep(e) == e.expiry > t IN SelectSeq(file, Keep)

InitLoad ==
    /\ now = LoadBootTime
    /\ cache = <<>>
    /\ rateBuckets = <<>>
    /\ saveTimeout = NoTimer
    /\ reqs = [i \in 1..MaxRequests |-> IdleReq]
    /\ disk = NoDisk
    /\ page = StartPage
    /\ last \in {[op |-> "boot", file |-> f] : f \in SnapshotFiles}
    /\ checks = [ip \in Clients |-> <<>>]

\* the module body runs the load once
Load ==
    /\ last.op = "boot"
    /\ cache' = LoadCache(last.file, now)
    /\ last' = [op |-> "load", file |-> last.file, at |-> now]
    /\ UNCHANGED <<now, rateBuckets, saveTimeout, reqs, checks, disk, page>>

GetLoaded == last.op # "boot" /\ \E key \in Keys : Get(key)

TickLoaded == last.op # "boot" /\ TickTo(LoadMaxTime)

NextLoad == Load \/ GetLoaded \/ TickLoaded

SpecLoad == InitLoad /\ [][NextLoad]_vars

\* C19 (state part): once loaded, the store holds no entry that had expired
\* when the process started
C19_NoStaleEntry ==
    last.op # "boot" => \A i \in 1..Len(cache) : cache[i].expiry > LoadBootTime

\* C19 (step part): the load keeps exactly the file's entries whose expiry
\* lies after now, and a later get returns only the data of such an entry
C19_LoadStep ==
    /\ last'.op = "load" =>
          /\ \A i \in 1..Len(cache') : cache'[i].expiry > now
          /\ \A j \in 1..Len(last'.file) :
                (last'.file[j].expiry > now) <=>
                    (\E i \in 1..Len(cache') : cache'[i] = last'.file[j])
          /\ Len(cache') <= Len(last'.file)
    /\ (last'.op = "get" /\ last'.ret # Null) =>
          /\ EntryOf(cache, last'.key).expiry > LoadBootTime
          /\ EntryOf(cache, last'.key).data = last'.ret

\* C19: every snapshot entry whose expiry has passed at startup is
\* discarded: after the load the store holds no entry with expiry <= now,
\* and no later get returns the result of such an entry.
C19_LoadDiscardsExpired == [](C19_NoStaleEntry) /\ [][C19_LoadStep]_vars

\* C19 witness: a file with an entry expiring exactly at startup and one
\* expiring later was loaded, and only the later one is in the store
C19_Witness ==
    /\ last.op = "load"
    /\ Len(last.file) = 2
    /\ last.file[1].expiry = last.at
    /\ last.file[2].expiry > last.at
    /\ cache = <<last.file[2]>>


---------------------------------------------------------------------------
(* The debounced snapshot: puts, the clock and the timer of                *)
(* saveCacheToDisk, part_001 lines 76-112                                  *)

\* horizon of the snapshot model
SnapshotMaxTime == 2500

SnapshotKeys ==
    {CacheKeyOf(r.date, r.run, r.station, r.param) :
        r \in {q \in ValidInputs : q.run = <<"0","3">>}}

\* a put whose timer comes due within the horizon
PutSnapshot ==
    /\ now + SAVE_DELAY_MS <= SnapshotMaxTime
    /\ \E key \in SnapshotKeys : Put(key, Processed[RawWith(10)])

\* the clock advances once the callbacks of the timers that are due have run
TickSnapshot ==
    /\ \A d \in saveTimeout.timers : now < d
    /\ TickTo(SnapshotMaxTime)

NextSnapshot == PutSnapshot \/ TickSnapshot \/ SaveTimerFires

\* timers that are due fire, and time passes
SpecSnapshot ==
    /\ Init
    /\ [][NextSnapshot]_vars
    /\ WF_vars(SaveTimerFires)
    /\ WF_vars(TickSnapshot)

\* C20 (state part): at most one snapshot timer is pending, the one the
\* handle names
C20_SingleSlot ==
    /\ Cardinality(saveTimeout.timers) <= 1
    /\ saveTimeout.handle = saveTimeout.timers

\* C20 (step part): a put leaves exactly one timer, due SAVE_DELAY_MS after
\* the put; a write is made only by the pending timer, no earlier than its
\* due time and before the clock moves on, it contains the whole store as it
\* is at that moment, and it leaves no timer pending; nothing else touches
\* the timer
C20_DebounceStep ==
    /\ last'.op = "put" =>
          saveTimeout'.timers = {now + SAVE_DELAY_MS}
    /\ last'.op = "save" =>
          /\ \E d \in saveTimeout.timers : now >= d /\ now - d < TickMs
          /\ saveTimeout'.timers = {}
          /\ last'.written = cache
          /\ cache' = cache
    /\ last'.op \notin {"put", "save"} => saveTimeout' = saveTimeout

\* C20: the snapshot task is single-slot; each put cancels the pending timer
\* and schedules a new one SAVE_DELAY_MS later, so a burst of puts causes no
\* write while it lasts and exactly one write after its last put, holding
\* the whole store as of the moment the timer fires.
C20_DebouncedSnapshot ==
    /\ [](C20_SingleSlot)
    /\ [][C20_DebounceStep]_vars
    /\ ((saveTimeout.timers # {}) ~> (last.op = "save"))

\* C20 witness: two puts at different times less than SAVE_DELAY_MS apart
\* were followed by one write, SAVE_DELAY_MS after the second put, holding
\* both entries
C20_Witness ==
    /\ last.op = "save"
    /\ Len(last.written) = 2
    /\ last.written[1].cachedAt < last.written[2].cachedAt
    /\ last.written[2].cachedAt - last.written[1].cachedAt < SAVE_DELAY_MS
    /\ now = last.written[2].cachedAt + SAVE_DELAY_MS
    /\ saveTimeout.timers = {}

---------------------------------------------------------------------------
(* Properties of concurrent requests *)

\* the step just taken belongs to the request in slot last'.slot after its
\* first await: an attempt settled, or a backoff wait ended
InFlightStep ==
    /\ last'.op \in {"response", "backoff", "attempt"}
    /\ reqs[last'.slot].pc # "idle"

OthersUntouched ==
    \A j \in 1..MaxRequests : j # last'.slot => reqs'[j] = reqs[j]

\* C21: misses for the same key are not coalesced: a request that misses and
\* is admitted starts its own upstream attempt at once, whatever fetches are
\* in flight for that key; no step of one request (a failure, a backoff, its
\* 502) changes another request in flight; and every fetch that resolves
\* with MIN_MEMBERS member series or more is put in the store.
C21_IndependentMisses ==
    [][/\ LookupStep =>
             LET k == last'.key
                 fresh == k \in CacheKeys(cache) /\ EntryOf(cache, k).expiry >= now
                 admitted == CheckApiRateLimit(rateBuckets, last'.ip, now).ok
             IN (~fresh /\ admitted) =>
                   /\ last'.op = "attempt"
                   /\ reqs[last'.slot].pc = "idle"
                   /\ reqs'[last'.slot].pc = "fetching"
                   /\ reqs'[last'.slot].key = k
                   /\ reqs'[last'.slot].startAt = now
                   /\ OthersUntouched
       /\ InFlightStep => OthersUntouched
       /\ FetchedStep =>
             (Cardinality(DOMAIN last'.body \ {"Mean"}) >= MIN_MEMBERS =>
                 /\ last'.xcache = "MISS"
                 /\ last'.key \in CacheKeys(cache')
                 /\ EntryOf(cache', last'.key).data = last'.body)]_vars

\* C21 witness: a request was answered 502 while a second request for the
\* same key, which arrived after it and before its failure, is still fetching
C21_Witness ==
    /\ last.op = "response"
    /\ last.status = 502
    /\ \E j \in 1..MaxRequests :
          /\ j # last.slot
          /\ reqs[j].pc = "fetching"
          /\ reqs[j].key = last.key
          /\ reqs[j].arrivedAt > last.arrivedAt
          /\ reqs[j].arrivedAt < now

---------------------------------------------------------------------------
(* Classification of the responses of the data endpoint *)

\* One request at a time, any request; upstream may also answer 200 with
\* the body `null`, which JSON.parse accepts and processData throws on
EndpointOutcomes == HandlerOutcomes \cup {[kind |-> "ok", raw |-> Null]}

RequestEndpoint == \E r \in HandlerInputs : Request(1, "ipA", r)

SettleEndpoint == \E o \in EndpointOutcomes : Settle(1, o)

WakeEndpoint == Wake(1)

TickEndpoint == TickTo(HandlerMaxTime)

NextEndpoint ==
    RequestEndpoint \/ SettleEndpoint \/ WakeEndpoint \/ TickEndpoint
        \/ SaveTimerFires

SpecEndpoint == Init /\ [][NextEndpoint]_vars

\* the bodies the series processor returns for what upstream can send
FetchedBodies ==
    {ProcessData(o.raw) : o \in {h \in EndpointOutcomes :
                                    h.kind = "ok" /\ ~ProcessThrows(h.raw)}}

\* C22: every response is one of 200 HIT, 200 MISS, 200 INCOMPLETE, 400, 429
\* and 502.  HIT iff the body is the stored entry's data and the request
\* made no upstream attempt; MISS iff an upstream body was processed and put
\* under the key (setInCache was called); INCOMPLETE iff an upstream body was
\* processed and setInCache was not called; 502 iff the request's upstream attempt failed for good or the
\* processing of the body threw.
C22_ResponseClasses ==
    [][last'.op = "response" =>
        LET i == last'.slot
            fetched == reqs[i].pc = "fetching"
            ok == last'.status = 200
            label == IF ok THEN last'.xcache ELSE "none"
            attemptFailed == fetched /\ Len(last'.errs) = Len(reqs[i].errs) + 1
        IN /\ last'.status \in {200, 400, 429, 502}
           /\ ok => label \in {"HIT", "MISS", "INCOMPLETE"}
           /\ reqs'[i].pc = "idle"
           /\ label = "HIT" <=> (ok /\ ~fetched)
           /\ label = "HIT" =>
                 /\ last'.key \in CacheKeys(cache)
                 /\ last'.body = EntryOf(cache, last'.key).data
                 /\ cache' = cache
                 /\ reqs' = reqs
           /\ (ok /\ fetched) =>
                 /\ last'.body \in FetchedBodies
                 /\ Len(last'.errs) = Len(reqs[i].errs)
                 /\ label = "MISS" <=> last'.put
                 /\ label = "INCOMPLETE" <=> ~last'.put
                 /\ last'.put =>
                       /\ cache' = SetInCache(cache, last'.key, last'.body, now)
                       /\ saveTimeout' = SaveCacheToDisk(now)
                 /\ ~last'.put => (cache' = cache /\ saveTimeout' = saveTimeout)
           /\ last'.status \in {400, 429} => ~fetched
           /\ last'.status = 502 =>
                 /\ fetched
                 /\ last'.thrown # attemptFailed
                 /\ attemptFailed =>
                       last'.details = ErrorMessage(LastOf(last'.errs))
                 /\ last'.thrown => last'.details = MsgNotObject]_vars

\* C22 witness: a first attempt failed, the second brought a body the series
\* processor threw on, and the request was answered 502
C22_Witness ==
    /\ last.op = "response"
    /\ last.status = 502
    /\ last.thrown
    /\ last.attempt = 2
    /\ Len(last.errs) = 1

---------------------------------------------------------------------------
(* Requests served while another is suspended *)

Suspended(i) == reqs[i].pc \in {"fetching", "backoff"}

FreshIn(c, key, t) == key \in CacheKeys(c) /\ EntryOf(c, key).expiry >= t

\* two handler invocations, the least number for one request to be answered
\* while another is suspended
RequestPair ==
    \E i \in {1, 2}, ip \in HandlerClients, r \in HandlerInputs : Request(i, ip, r)

SettlePair == \E i \in {1, 2}, o \in HandlerOutcomes : Settle(i, o)

WakePair == \E i \in {1, 2} : Wake(i)

TickPair == TickTo(HandlerMaxTime)

NextPair == RequestPair \/ SettlePair \/ WakePair \/ TickPair \/ SaveTimerFires

SpecPair == Init /\ [][NextPair]_vars

\* the key of every request that passes validation
KeyOfInput ==
    [r \in ValidInputs |-> CacheKeyOf(r.date, r.run, r.station, r.param)]

\* the request r from ip is answered HIT in one step that leaves the clock
\* and the requests in flight as they are
HitNow(j, ip, r) ==
    /\ Request(j, ip, r)
    /\ last'.op = "response"
    /\ last'.status = 200
    /\ last'.xcache = "HIT"
    /\ now' = now
    /\ reqs' = reqs

\* C23: while a request is suspended in an upstream fetch or a backoff wait,
\* a request for another key that is present and unexpired can be answered
\* HIT at once, without any step of the suspended request.
C23_HitWhileSuspended ==
    \A i \in 1..MaxRequests :
        Suspended(i) =>
            \A j \in 1..MaxRequests :
                (/\ reqs[j].pc = "idle"
                 /\ \A m \in 1..(j - 1) : reqs[m].pc # "idle") =>
                    \A ip \in HandlerClients, r \in DOMAIN KeyOfInput :
                        (/\ KeyOfInput[r] # reqs[i].key
                         /\ FreshIn(cache, KeyOfInput[r], now))
                            => ENABLED HitNow(j, ip, r)

\* C23 witness: a HIT was answered while another request, for a different
\* key, is in a backoff wait that has not ended
C23_Witness ==
    /\ last.op = "response"
    /\ last.status = 200
    /\ last.xcache = "HIT"
    /\ \E i \in 1..MaxRequests :
          /\ reqs[i].pc = "backoff"
          /\ reqs[i].key # last.key
          /\ reqs[i].failAt < now
          /\ now < reqs[i].wakeAt

---------------------------------------------------------------------------
(* Health and cache inventory: part_001 lines 257-272.  Remaining lifetimes *)
(* are reported in minutes, so this specification draws the clock and the  *)
(* expiry stamps half a minute apart.                                      *)

MINUTE_MS == 60000

\* the clock and the expiry stamps are multiples of StatsStepMs
StatsStepMs == 30000
StatsSteps == 3

StatsTimes == {k * StatsStepMs : k \in 0..StatsSteps}

StrMinutes == <<" ","m","i","n","u","t","e","s">>

\* Math.round(n / d) for an integer n and d > 0: halves go up
MathRound(n, d) == (2 * n + d) \div (2 * d)

\* the decimal text of an integer (string concatenation with a number)
IntToStr(n) == IF n < 0 THEN <<"-">> \o NumToStr(0 - n) ELSE NumToStr(n)

\* the body of /api/cache-stats at time t
CacheStatsBody(c, t) ==
    [entries |-> Len(c),
     keys |-> [i \in 1..Len(c) |->
                 [key |-> c[i].key,
                  cachedAt |-> c[i].cachedAt,
                  expiresIn |-> IntToStr(MathRound(c[i].expiry - t, MINUTE_MS))
                                   \o StrMinutes]]]

StatsEntries ==
    {[key |-> k, data |-> Processed[RawWith(10)], expiry |-> x, cachedAt |-> 0] :
        k \in SnapshotKeys, x \in StatsTimes}

StatsCaches ==
    UNION {{f \in [1..n -> StatsEntries] :
               \A a \in 1..n, b \in 1..n : a # b => f[a].key # f[b].key} :
           n \in 0..MaxSnapshotLen}

InitStats ==
    /\ now \in StatsTimes
    /\ cache \in StatsCaches
    /\ rateBuckets = <<>>
    /\ saveTimeout = NoTimer
    /\ reqs = [i \in 1..MaxRequests |-> IdleReq]
    /\ disk = NoDisk
    /\ page = StartPage
    /\ last = [op |-> "init"]
    /\ checks = [ip \in Clients |-> <<>>]

\* GET /health (uptime is not modelled)
Health ==
    /\ last' = [op |-> "health", status |-> "ok", cacheSize |-> Len(cache)]
    /\ UNCHANGED <<now, cache, rateBuckets, saveTimeout, reqs, checks,
                   disk, page>>

\* (mutant) the inventory drops the entries it finds expired
CacheStats_DropExpired ==
    LET Keep(e) == e.expiry >= now
    IN /\ cache' = SelectSeq(cache, Keep)
       /\ last' = [op |-> "stats", body |-> CacheStatsBody(SelectSeq(cache, Keep), now)]
       /\ UNCHANGED <<now, rateBuckets, saveTimeout, reqs, checks,
                      disk, page>>

\* GET /api/cache-stats
CacheStats ==
    /\ last' = [op |-> "stats", body |-> CacheStatsBody(cache, now)]
    /\ UNCHANGED <<now, cache, rateBuckets, saveTimeout, reqs, checks,
                   disk, page>>

\* other traffic: a put and an admission check
PutStats == \E key \in SnapshotKeys : Put(key, Processed[RawWith(10)])

CheckStats == Check("ipA")

NextStats == Health \/ CacheStats \/ PutStats \/ CheckStats

SpecStats == InitStats /\ [][NextStats]_vars

\* the whole minutes within which a remaining lifetime of the model lies
StatsMinutes == (0 - StatsSteps - 1)..(StatsSteps + 1)

\* C24: /health and /api/cache-stats change nothing: the store and every
\* entry in it, every bucket and the snapshot timer stay as they are.  Health
\* reports the number of entries in the store; the inventory lists every
\* entry, expired ones included, in store order with its key, its cachedAt
\* and its remaining lifetime expiry - now, given as text in whole minutes
\* (the nearest minute, halves up).
C24_PureReads ==
    [][last'.op \in {"health", "stats"} =>
        /\ cache' = cache
        /\ rateBuckets' = rateBuckets
        /\ saveTimeout' = saveTimeout
        /\ reqs' = reqs
        /\ now' = now
        /\ last'.op = "health" => last'.cacheSize = Len(cache)
        /\ last'.op = "stats" =>
              /\ last'.body.entries = Len(cache)
              /\ Len(last'.body.keys) = Len(cache)
              /\ \A i \in 1..Len(cache) :
                    LET row == last'.body.keys[i]
                        remaining == cache[i].expiry - now
                    IN /\ row.key = cache[i].key
                       /\ row.cachedAt = cache[i].cachedAt
                       /\ \E m \in StatsMinutes :
                             /\ row.expiresIn = IntToStr(m) \o StrMinutes
                             /\ 2 * (remaining - m * MINUTE_MS) >= 0 - MINUTE_MS
                             /\ 2 * (remaining - m * MINUTE_MS) < MINUTE_MS]_vars

\* C24 witness: the inventory was read while the store holds an expired entry
\* and an unexpired one, a snapshot timer is pending and a bucket exists
C24_Witness ==
    /\ last.op = "stats"
    /\ \E i \in 1..Len(cache) : cache[i].expiry + MINUTE_MS < now
    /\ \E i \in 1..Len(cache) : cache[i].expiry > now
    /\ saveTimeout.timers # {}
    /\ rateBuckets # <<>>
    /\ last.body.entries = Len(cache)

---------------------------------------------------------------------------
(* Upstream load of one client: the admission checks and the retries of the *)
(* misses they permit.  The upstream is stalled: the attempts outstanding  *)
(* at StallEndMs are answered 503 at that instant, no attempt is answered  *)
(* at any other time within the horizon.  Requests arrive at whole seconds. *)

UpstreamSlots == 7
UpstreamMaxChecks == 8
UpstreamMaxTime == 5000
StallEndMs == 4000

InitUpstream ==
    /\ now = 0
    /\ cache = <<>>
    /\ rateBuckets = <<>>
    /\ saveTimeout = NoTimer
    /\ reqs = [i \in 1..UpstreamSlots |-> IdleReq]
    /\ disk = NoDisk
    /\ page = StartPage
    /\ last = [op |-> "init"]
    /\ checks = [ip \in Clients |-> <<>>]

\* a request of client ipA; the admission check it makes is recorded
RequestLogged(i) ==
    /\ Len(checks["ipA"]) < UpstreamMaxChecks
    /\ Handle(i, "ipA", RetryInput)
    /\ checks' = [checks EXCEPT !["ipA"] =
                     Append(@, [at |-> now, ok |-> last'.op = "attempt"])]

RequestUpstream == \E i \in 1..UpstreamSlots : RequestLogged(i)

\* the stalled upstream answers the outstanding attempts in the order they
\* were started
SettleUpstream ==
    /\ now >= StallEndMs
    /\ now < StallEndMs + REFILL_INTERVAL
    /\ \E i \in 1..UpstreamSlots :
          /\ \A j \in 1..(i - 1) : reqs[j].pc # "fetching"
          /\ Settle(i, [kind |-> "status", code |-> 503])

\* timers due at the same time fire in the order they were set
WakeUpstream ==
    \E i \in 1..UpstreamSlots :
        /\ \A j \in 1..(i - 1) : reqs[j].pc # "backoff"
        /\ Wake(i)

\* the clock is read at whole seconds
TickUpstream ==
    /\ now + REFILL_INTERVAL <= UpstreamMaxTime
    /\ now' = now + REFILL_INTERVAL
    /\ last' = [op |-> "tick"]
    /\ UNCHANGED <<cache, rateBuckets, saveTimeout, reqs, checks,
                   disk, page>>

NextUpstream == RequestUpstream \/ SettleUpstream \/ WakeUpstream \/ TickUpstream

SpecUpstream == InitUpstream /\ [][NextUpstream]_vars

\* the permitted checks among the a-th to b-th recorded checks of a client
Permitted(h, a, b) == Cardinality({n \in a..b : h[n].ok})

\* the upstream attempts of a client's requests in flight that started in
\* the T seconds up to now
AttemptsSince(ip, T) ==
    Cardinality({i \in DOMAIN reqs :
                    /\ reqs[i].pc # "idle"
                    /\ reqs[i].ip = ip
                    /\ reqs[i].startAt >= now - T * REFILL_INTERVAL})

\* C25 as claimed: in any interval of T seconds the upstream attempts made
\* for one client number at most RETRIES * (BUCKET_MAX + REFILL_RATE * T).
C25_AttemptsInInterval ==
    \A ip \in Clients, T \in 0..(UpstreamMaxTime \div REFILL_INTERVAL) :
        AttemptsSince(ip, T) <= RETRIES * (BUCKET_MAX + REFILL_RATE * T)

\* C25 (amended): of the checks of one client made within any interval of T
\* seconds at most BUCKET_MAX + REFILL_RATE * T are permitted, and a
\* permitted miss makes at most RETRIES upstream attempts; so the attempts
\* made for the checks permitted in the interval number at most
\* RETRIES * (BUCKET_MAX + REFILL_RATE * T), whenever they are made.
C25_PermitsInInterval ==
    /\ \A ip \in Clients :
          \A a \in 1..Len(checks[ip]), b \in 1..Len(checks[ip]) :
              a <= b =>
                  Permitted(checks[ip], a, b) * REFILL_INTERVAL
                      <= BUCKET_MAX * REFILL_INTERVAL
                           + REFILL_RATE * (checks[ip][b].at - checks[ip][a].at)
    /\ \A i \in DOMAIN reqs :
          reqs[i].pc # "idle" =>
              /\ reqs[i].attempt \in 1..RETRIES
              /\ \E n \in 1..Len(checks[reqs[i].ip]) :
                    /\ checks[reqs[i].ip][n].ok
                    /\ checks[reqs[i].ip][n].at = reqs[i].arrivedAt

\* C25 witness: a client's first n checks were all permitted, n being
\* BUCKET_MAX and one for each second they span, over two seconds or more,
\* and its next check, made at the time of the n-th, was denied
C25_Witness ==
    LET h == checks["ipA"]
    IN \E n \in (BUCKET_MAX + 2)..(Len(h) - 1) :
          /\ Permitted(h, 1, n) = n
          /\ n * REFILL_INTERVAL
                = BUCKET_MAX * REFILL_INTERVAL + REFILL_RATE * (h[n].at - h[1].at)
          /\ ~h[n + 1].ok
          /\ h[n + 1].at = h[n].at

---------------------------------------------------------------------------
(* Provenance of the entries of the store *)

Entries(c) == {c[i] : i \in 1..Len(c)}

\* C26 (state part): every entry holds a processed upstream body with
\* MIN_MEMBERS member series or more and an expiry one TTL after its
\* cachedAt, and no key has two entries
C26_EntriesWellFormed ==
    /\ \A i \in 1..Len(cache) :
          /\ cache[i].data \in FetchedBodies
          /\ Cardinality(DOMAIN cache[i].data \ {"Mean"}) >= MIN_MEMBERS
          /\ cache[i].expiry = cache[i].cachedAt + CACHE_TTL_MS
          /\ cache[i].cachedAt <= now
    /\ \A i \in 1..Len(cache), j \in 1..Len(cache) :
          cache[i].key = cache[j].key => i = j

\* C26 (step part): an entry appears or changes only in the step that answers
\* MISS to a request that was fetching for that key, and is then written
\* whole: the body of that answer, stamped with the time of the put; every
\* other entry of the store is one that was there before, unchanged; the
\* entry of the key after a MISS is that whole new entry, an earlier one for
\* the key being replaced; and a HIT returns the data of the entry of its key.
C26_WrittenWhole ==
    /\ \A e \in Entries(cache') \ Entries(cache) :
          /\ last'.op = "response"
          /\ last'.status = 200
          /\ last'.xcache = "MISS"
          /\ reqs[last'.slot].pc = "fetching"
          /\ reqs[last'.slot].key = e.key
          /\ e = [key |-> last'.key, data |-> last'.body,
                  expiry |-> now + CACHE_TTL_MS, cachedAt |-> now]
          /\ Cardinality(DOMAIN last'.body \ {"Mean"}) >= MIN_MEMBERS
    /\ (last'.op = "response" /\ last'.status = 200 /\ last'.xcache = "MISS") =>
          /\ [key |-> last'.key, data |-> last'.body,
              expiry |-> now + CACHE_TTL_MS, cachedAt |-> now] \in Entries(cache')
          /\ \A e \in Entries(cache') : e.key = last'.key => e.cachedAt = now
    /\ (last'.op = "response" /\ last'.status = 200 /\ last'.xcache = "HIT") =>
          \E e \in Entries(cache) : e.key = last'.key /\ e.data = last'.body

---------------------------------------------------------------------------
(* Order of the points of a processed result *)

\* C27 as claimed: in the result of processData every series, the member
\* series as well as Mean, has strictly ascending timestamps, whatever order
\* the points of the upstream body come in.
C27_SeriesAscending ==
    last.op = "processed" =>
        \A l \in DOMAIN last.out :
            \A i \in 1..Len(last.out[l]), j \in 1..Len(last.out[l]) :
                i < j => last.out[l][i].x < last.out[l][j].x

---------------------------------------------------------------------------
(* The body handling of fetchFromNOAA on any body text: JSON texts encoded  *)
(* as string literals any number of times, and texts that are not JSON     *)

\* a drawn value is wrapped in at most MaxEncodings string literals
MaxEncodings == 2

RECURSIVE EncodeTimes(_, _)
EncodeTimes(v, n) ==
    IF n = 0 THEN JSONStringify(v)
    ELSE JSONStringify(JStr(EncodeTimes(v, n - 1)))

\* texts JSON.parse rejects: empty, cut short, bare words
BrokenTexts == {<<>>, <<"{">>, <<"[","1">>, <<"<","h","t","m","l",">">>}

BodyTexts ==
    {EncodeTimes(v, n) : v \in JsonScalars \cup StructuredValues,
                         n \in 0..MaxEncodings}
    \cup BrokenTexts
    \cup {JSONStringify(JStr(b)) : b \in BrokenTexts}

InitBody ==
    /\ now = 0
    /\ cache = <<>>
    /\ rateBuckets = <<>>
    /\ saveTimeout = NoTimer
    /\ reqs = [i \in 1..MaxRequests |-> IdleReq]
    /\ disk = NoDisk
    /\ page = StartPage
    /\ last \in {[op |-> "text", data |-> d] : d \in BodyTexts}
    /\ checks = [ip \in Clients |-> <<>>]

\* the 'end' callback of a 200 answer decodes the text
DecodeText ==
    /\ last.op = "text"
    /\ last' = [op |-> "fetched", data |-> last.data, res |-> DecodeBody(last.data)]
    /\ UNCHANGED <<now, cache, rateBuckets, saveTimeout, reqs, checks,
                   disk, page>>

NextBody == DecodeText

SpecBody == InitBody /\ [][NextBody]_vars

\* C28 as claimed: the fetch never resolves with a string, and it fails with
\* the parse error when the body is not JSON or is a JSON string whose
\* content is not JSON.
C28_NeverResolvesString ==
    last.op = "fetched" =>
        LET first == JSONParse(last.data)
        IN /\ last.res.ok => last.res.val.t # "str"
           /\ (~first.ok \/ (first.val.t = "str" /\ ~JSONParse(first.val.s).ok)) =>
                 (~last.res.ok /\ last.res.error = MsgParse)

---------------------------------------------------------------------------
(* A caller that closes its connection while its request is suspended.     *)
(* The handler (part_001 lines 274-330) registers no listener for the      *)
(* close of the request, so the closing is an event of the environment     *)
(* that the server only outlives; it is logged in checks.                  *)

\* at most MaxAbandons connections are closed by their caller
MaxAbandons == 1

\* the closings logged for the request suspended in slot i
ClosingsOf(i) ==
    {n \in 1..Len(checks[reqs[i].ip]) :
        /\ checks[reqs[i].ip][n].key = reqs[i].key
        /\ checks[reqs[i].ip][n].arrivedAt = reqs[i].arrivedAt}

Abandoned(i) == Suspended(i) /\ ClosingsOf(i) # {}

\* (mutant) closing the connection unwinds the handler
Abandon_Unwinds(i) ==
    /\ Suspended(i)
    /\ ~Abandoned(i)
    /\ Len(checks[reqs[i].ip]) < MaxAbandons
    /\ checks' = [checks EXCEPT ![reqs[i].ip] =
                    Append(@, [at |-> now, key |-> reqs[i].key,
                               arrivedAt |-> reqs[i].arrivedAt,
                               attempt |-> reqs[i].attempt])]
    /\ reqs' = [reqs EXCEPT ![i] = IdleReq]
    /\ last' = [op |-> "closed", slot |-> i, key |-> reqs[i].key]
    /\ UNCHANGED <<now, cache, rateBuckets, saveTimeout, disk, page>>

\* the caller of the request suspended in slot i closes its connection
Abandon(i) ==
    /\ Suspended(i)
    /\ ~Abandoned(i)
    /\ Len(checks[reqs[i].ip]) < MaxAbandons
    /\ checks' = [checks EXCEPT ![reqs[i].ip] =
                    Append(@, [at |-> now, key |-> reqs[i].key,
                               arrivedAt |-> reqs[i].arrivedAt,
                               attempt |-> reqs[i].attempt])]
    /\ last' = [op |-> "closed", slot |-> i, key |-> reqs[i].key]
    /\ UNCHANGED <<now, cache, rateBuckets, saveTimeout, reqs, disk, page>>

RequestAbandon == \E r \in HandlerInputs : Request(1, "ipA", r)

SettleAbandon == \E o \in HandlerOutcomes : Settle(1, o)

WakeAbandon == Wake(1)

AbandonOne == Abandon(1)

TickAbandon == TickTo(HandlerMaxTime)

NextAbandon ==
    RequestAbandon \/ SettleAbandon \/ WakeAbandon \/ AbandonOne \/ TickAbandon

SpecAbandon == Init /\ [][NextAbandon]_vars

\* an abandoned request can go on: every answer of upstream can still settle
\* its attempt, and its backoff timer can still fire
C29_CanGoOn ==
    Abandoned(1) =>
        /\ reqs[1].pc = "fetching" =>
              \A o \in HandlerOutcomes : ENABLED Settle(1, o)
        /\ (reqs[1].pc = "backoff" /\ now >= reqs[1].wakeAt) => ENABLED Wake(1)

\* once the slot is free, a key that a put left fresh is answered HIT
C29_FreshIsHit ==
    reqs[1].pc = "idle" =>
        \A r \in ValidInputs :
            FreshIn(cache, CacheKeyOf(r.date, r.run, r.station, r.param), now)
                => ENABLED HitNow(1, "ipA", r)

\* the closing itself leaves the request and the store as they are, and an
\* abandoned request leaves its slot only by answering; a complete result
\* is put in the store under its key, fresh for the whole TTL
C29_AbandonedStep ==
    /\ Len(checks'["ipA"]) > Len(checks["ipA"]) =>
          /\ reqs' = reqs
          /\ Abandoned(1)'
          /\ UNCHANGED <<cache, saveTimeout, rateBuckets>>
    /\ (Abandoned(1) /\ reqs'[1] # reqs[1]) =>
          /\ reqs'[1].pc = "idle" =>
                /\ last'.op = "response"
                /\ last'.key = reqs[1].key
                /\ last'.status \in {200, 502}
          /\ (reqs'[1].pc = "idle" /\ last'.status = 502) =>
                \/ Exhausted(reqs[1].attempt)
                \/ ~IsRetryable(last'.details)
          /\ reqs'[1].pc = "backoff" =>
                /\ reqs[1].pc = "fetching"
                /\ reqs'[1].attempt = reqs[1].attempt
          /\ reqs'[1].pc = "fetching" =>
                /\ reqs[1].pc = "backoff"
                /\ reqs'[1].attempt = reqs[1].attempt + 1
          /\ (reqs'[1].pc = "idle" /\ last'.status = 200
                 /\ MemberCount(last'.body) >= MIN_MEMBERS) =>
                /\ last'.xcache = "MISS"
                /\ cache' = SetInCache(cache, reqs[1].key, last'.body, now)
                /\ FreshIn(cache', reqs[1].key, now + CACHE_TTL_MS)

\* C29: a request abandoned by its caller after its miss-fetch started is not
\* unwound: its attempts and retries go on to an answer, a complete result is
\* put in the store, and a later request for the key within the TTL is a HIT.
C29_AbandonedCompletes ==
    [](C29_CanGoOn /\ C29_FreshIsHit) /\ [][C29_AbandonedStep]_vars

\* C29 witness: a request abandoned during its first backoff wait was retried
\* after the closing and has just put its complete result, which a request
\* for the same key would now be answered from
C29_Witness ==
    /\ last.op = "response"
    /\ last.status = 200
    /\ last.xcache = "MISS"
    /\ last.attempt >= 2
    /\ FreshIn(cache, last.key, now)
    /\ \E n \in 1..Len(checks["ipA"]) :
          LET e == checks["ipA"][n]
          IN /\ e.key = last.key
             /\ e.arrivedAt = last.arrivedAt
             /\ e.arrivedAt < e.at
             /\ e.at < now
             /\ e.attempt < last.attempt
    /\ \E r \in ValidInputs :
          /\ CacheKeyOf(r.date, r.run, r.station, r.param) = last.key
          /\ ENABLED HitNow(1, "ipA", r)

---------------------------------------------------------------------------
(* Independence of the buckets of different clients                        *)

\* the bucket map of a server that saw only the first n checks of history h,
\* all of them from ip
RECURSIVE AloneAfter(_, _, _)
AloneAfter(ip, h, n) ==
    IF n = 0 THEN <<>>
    ELSE CheckApiRateLimit(AloneAfter(ip, h, n - 1), ip, h[n].at).buckets

\* the verdict of the n-th check of h on that server
AloneOk(ip, h, n) == CheckApiRateLimit(AloneAfter(ip, h, n - 1), ip, h[n].at).ok

\* every verdict and every bucket is what the client's own checks, at their
\* own times, give on a server no other client uses
C30_OwnHistoryOnly ==
    \A ip \in Clients :
        /\ \A n \in 1..Len(checks[ip]) :
              checks[ip][n].ok = AloneOk(ip, checks[ip], n)
        /\ ip \in DOMAIN rateBuckets <=> checks[ip] # <<>>
        /\ ip \in DOMAIN rateBuckets =>
              rateBuckets[ip] = AloneAfter(ip, checks[ip], Len(checks[ip]))[ip]

\* a check creates or changes the bucket of the checked client only
C30_CheckStep ==
    \A ip \in Clients :
        Len(checks'[ip]) > Len(checks[ip]) =>
            /\ DOMAIN rateBuckets' = DOMAIN rateBuckets \cup {ip}
            /\ \A other \in DOMAIN rateBuckets \ {ip} :
                  rateBuckets'[other] = rateBuckets[other]

\* C30: token buckets are independent per client: a check for one client
\* creates or changes only that client's bucket, and whether a check is
\* permitted depends only on the client's own earlier checks and the time.
C30_BucketsIndependent == [](C30_OwnHistoryOnly) /\ [][C30_CheckStep]_vars

\* C30 witness: client A has used up its bucket and was denied, and client B,
\* checking afterwards at the same instant, is permitted from a full bucket
C30_Witness ==
    /\ last.op = "check"
    /\ last.ip = "ipB"
    /\ last.ok
    /\ Len(checks["ipB"]) = 1
    /\ Len(checks["ipA"]) > BUCKET_MAX
    /\ ~checks["ipA"][Len(checks["ipA"])].ok
    /\ checks["ipA"][Len(checks["ipA"])].at = now
    /\ rateBuckets["ipA"].tokens = 0
    /\ rateBuckets["ipB"].tokens = BUCKET_MAX - 1

---------------------------------------------------------------------------
(* The service worker of the dashboard: src/frontend/sw.js.  In this       *)
(* specification `cache` is the Cache opened under CACHE_NAME, a sequence  *)
(* of [key, resp] in insertion order, and `reqs` holds the fetch events    *)
(* being answered.                                                         *)

PathApi == <<"/","a","p","i","/">>

\* request paths: two of the API, one that only looks like it, one static
WorkerPaths ==
    {PathApi \o <<"a">>, PathApi \o <<"b">>, <<"/","a","p","i">>, <<"/","j","s">>}

WorkerMethods == {"GET", "POST"}

\* bodies the network can answer with, so that a copy can be told from a
\* newer answer
WorkerBodies == 2

\* Response.ok
ResponseOk(resp) == resp.status >= 200 /\ resp.status <= 299

NetworkResponses ==
    {[status |-> st, body |-> b] : st \in {200, 404, 500}, b \in 1..WorkerBodies}

\* what `await fetch(request)` can end with
NetworkOutcomes ==
    {[kind |-> "response", resp |-> r] : r \in NetworkResponses}
    \cup {[kind |-> "failed"]}

\* new Response(JSON.stringify({error: 'Offline', offline: true}), {status: 503})
OfflineResponse == [status |-> 503, body |-> "offline"]

\* the handler the fetch listener answers the event with (57-83)
StrategyOf(method, path) ==
    IF method # "GET" THEN "none"
    ELSE IF StartsWith(path, 1, PathApi) THEN "networkFirst"
    ELSE "cacheFirst"

\* cache.match(request)
CacheMatch(c, path) ==
    IF \E n \in 1..Len(c) : c[n].key = path
    THEN c[CHOOSE n \in 1..Len(c) : c[n].key = path].resp
    ELSE Null

\* cache.put(request, response)
CachePut(c, path, resp) ==
    IF \E n \in 1..Len(c) : c[n].key = path
    THEN [n \in 1..Len(c) |-> IF c[n].key = path THEN [key |-> path, resp |-> resp]
                                                 ELSE c[n]]
    ELSE Append(c, [key |-> path, resp |-> resp])

\* (mutant) every network response is stored
ShouldStore_Any(resp) == TRUE

\* `if (networkResponse.ok)` (92)
ShouldStore(resp) == ResponseOk(resp)

\* a fetch event: the listener hands an API GET to networkFirstWithCache,
\* which opens the cache and starts the network fetch (57-70, 89-92)
FetchEvent(i, method, path) ==
    /\ reqs[i].pc = "idle"
    /\ \A j \in 1..(i - 1) : reqs[j].pc # "idle"
    /\ IF StrategyOf(method, path) = "networkFirst"
       THEN /\ reqs' = [reqs EXCEPT ![i] = [pc |-> "network", path |-> path]]
            /\ last' = [op |-> "fetch", slot |-> i, path |-> path]
       ELSE /\ last' = [op |-> "passed", method |-> method, path |-> path,
                        strategy |-> StrategyOf(method, path)]
            /\ UNCHANGED reqs
    /\ UNCHANGED <<now, cache, rateBuckets, saveTimeout, checks, disk, page>>

\* `await fetch(request)` ends (92-109): a response is returned, after
\* cache.put was called for it when it is ok; the put is not awaited.  A
\* failure goes on to `await cache.match(request)`
NetworkSettles(i, o) ==
    /\ reqs[i].pc = "network"
    /\ IF o.kind = "response"
       THEN /\ last' = [op |-> "answer", slot |-> i, path |-> reqs[i].path,
                        resp |-> o.resp, from |-> "network", net |-> o,
                        stored |-> CacheMatch(cache, reqs[i].path)]
            /\ reqs' = [reqs EXCEPT ![i] =
                          IF ShouldStore(o.resp)
                          THEN [pc |-> "putting", path |-> reqs[i].path,
                                net |-> o]
                          ELSE IdleReq]
       ELSE /\ last' = [op |-> "failed", slot |-> i, path |-> reqs[i].path]
            /\ reqs' = [reqs EXCEPT ![i] =
                          [pc |-> "matching", path |-> reqs[i].path, net |-> o]]
    /\ UNCHANGED <<now, cache, rateBuckets, saveTimeout, checks, disk, page>>

\* the put started at line 98 writes the response into the cache
PutCompletes(i) ==
    /\ reqs[i].pc = "putting"
    /\ cache' = CachePut(cache, reqs[i].path, reqs[i].net.resp)
    /\ reqs' = [reqs EXCEPT ![i] = IdleReq]
    /\ last' = [op |-> "put", slot |-> i, path |-> reqs[i].path,
                resp |-> reqs[i].net.resp]
    /\ UNCHANGED <<now, rateBuckets, saveTimeout, checks, disk, page>>

\* `await cache.match(request)` after a failed fetch (105-121)
MatchCompletes(i) ==
    /\ reqs[i].pc = "matching"
    /\ LET cachedResponse == CacheMatch(cache, reqs[i].path)
       IN last' = [op |-> "answer", slot |-> i, path |-> reqs[i].path,
                   resp |-> IF cachedResponse # Null THEN cachedResponse
                            ELSE OfflineResponse,
                   from |-> IF cachedResponse # Null THEN "cache" ELSE "offline",
                   net |-> reqs[i].net,
                   stored |-> cachedResponse]
    /\ reqs' = [reqs EXCEPT ![i] = IdleReq]
    /\ UNCHANGED <<now, cache, rateBuckets, saveTimeout, checks, disk, page>>

FetchEventAny ==
    \E i \in 1..MaxRequests, m \in WorkerMethods, p \in WorkerPaths :
        FetchEvent(i, m, p)

NetworkSettlesAny ==
    \E i \in 1..MaxRequests, o \in NetworkOutcomes : NetworkSettles(i, o)

PutCompletesAny == \E i \in 1..MaxRequests : PutCompletes(i)

MatchCompletesAny == \E i \in 1..MaxRequests : MatchCompletes(i)

NextWorker ==
    FetchEventAny \/ NetworkSettlesAny \/ PutCompletesAny \/ MatchCompletesAny

SpecWorker == Init /\ [][NextWorker]_vars

\* only API paths are handled here, and only ok responses are in the cache
C31_OnlyOkStored ==
    /\ \A n \in 1..Len(cache) :
          /\ ResponseOk(cache[n].resp)
          /\ StartsWith(cache[n].key, 1, PathApi)
    /\ \A i \in 1..MaxRequests :
          reqs[i].pc # "idle" => StartsWith(reqs[i].path, 1, PathApi)

\* an answer is the network's response whenever the fetch gave one; after a
\* failed fetch it is the stored copy, or the 503 offline response when
\* nothing is stored; a write into the cache stores an ok network response
C31_AnswerStep ==
    /\ last'.op = "answer" /\ last' # last =>
          /\ last'.net.kind = "response" =>
                /\ last'.resp = last'.net.resp
                /\ last'.from = "network"
          /\ last'.net.kind = "failed" =>
                /\ last'.stored = CacheMatch(cache, last'.path)
                /\ last'.stored # Null =>
                      (last'.resp = last'.stored /\ last'.from = "cache")
                /\ last'.stored = Null =>
                      (last'.resp = OfflineResponse /\ last'.from = "offline")
          /\ cache' = cache
    /\ \A i \in 1..MaxRequests :
          (reqs[i].pc = "network" /\ reqs'[i].pc # "network") =>
              /\ reqs'[i].pc = "matching" <=> last'.op = "failed"
              /\ reqs'[i].pc # "matching" => last'.op = "answer"
    /\ cache' # cache =>
          /\ last'.op = "put"
          /\ ResponseOk(last'.resp)
          /\ cache' = CachePut(cache, last'.path, last'.resp)

\* C31: for GET requests of /api/ the service worker is network-first: the
\* response of a successful network fetch is the one returned, a stored copy
\* is returned only after the fetch failed, the 503 offline response when it
\* failed and nothing is stored, and only ok responses are ever stored.
C31_NetworkFirst == [](C31_OnlyOkStored) /\ [][C31_AnswerStep]_vars

\* C31 witness: the network answered with a newer body than the stored copy
\* of the same path, and the newer one was returned
C31_Witness ==
    /\ last.op = "answer"
    /\ last.from = "network"
    /\ last.stored # Null
    /\ last.stored.body # last.resp.body
    /\ last.resp.status = 404

---------------------------------------------------------------------------
(* The run the dashboard selects: getLatestRunWithDate, config.js lines    *)
(* 99-130.  Instants are minutes of UTC; a date is the number of its UTC   *)
(* day.  The Date methods setDate and getDate work in the local time zone  *)
(* of the browser, so the zone is an input.                                *)

MinutesPerDay == HOURS_PER_DAY * 60

\* the clock is drawn from the days 1..RunClockDays
RunClockDays == 2

\* the minutes of the hour that are drawn: both sides of the :20 thresholds
ClockMinutes == {0, 19, 20, 21, 59}

ClockInstants ==
    {d * MinutesPerDay + h * 60 + m :
        d \in 1..RunClockDays, h \in 0..(HOURS_PER_DAY - 1), m \in ClockMinutes}

\* local time zones: the offset from UTC in minutes before and from the
\* instant `change` on.  UTC, a zone without daylight saving, and US
\* Eastern on the days it leaves and enters daylight saving
TimeZones ==
    {[before |-> 0, after |-> 0, change |-> 0],
     [before |-> 540, after |-> 540, change |-> 0],
     [before |-> 0 - 240, after |-> 0 - 300, change |-> MinutesPerDay + 6 * 60],
     [before |-> 0 - 300, after |-> 0 - 240, change |-> MinutesPerDay + 7 * 60]}

OffsetAt(zone, t) == IF t < zone.change THEN zone.before ELSE zone.after

\* the instant of a local wall-clock time; a time that occurs twice or not
\* at all is read with the offset before the change
LocalToUTC(zone, wall) ==
    IF wall - zone.before < zone.change THEN wall - zone.before
    ELSE IF wall - zone.after >= zone.change THEN wall - zone.after
    ELSE wall - zone.before

\* yesterday.setDate(yesterday.getDate() - 1): the same wall-clock time on
\* the previous local day
SetDateMinusOne(zone, t) ==
    LocalToUTC(zone, t + OffsetAt(zone, t) - MinutesPerDay)

\* toISOString().split('T')[0]
ISODate(t) == t \div MinutesPerDay

\* utcTime >= h + 0.33 with utcTime = utcHour + utcMinute / 60, in hundredths
\* of a minute
AtLeast(utcHour, utcMinute, h) == 6000 * utcHour + 100 * utcMinute >= 6000 * h + 1980

GetLatestRunWithDate(zone, t) ==
    LET utcHour == (t \div 60) % HOURS_PER_DAY
        utcMinute == t % 60
        run == IF AtLeast(utcHour, utcMinute, 20) THEN 15
               ELSE IF AtLeast(utcHour, utcMinute, 14) THEN 9
               ELSE IF AtLeast(utcHour, utcMinute, 8) THEN 3
               ELSE IF AtLeast(utcHour, utcMinute, 2) THEN 21
               ELSE 15
        needsYesterday == ~AtLeast(utcHour, utcMinute, 8)
    IN [run |-> run,
        date |-> IF needsYesterday THEN ISODate(SetDateMinusOne(zone, t))
                 ELSE ISODate(t)]

InitLatest ==
    /\ now = 0
    /\ cache = <<>>
    /\ rateBuckets = <<>>
    /\ saveTimeout = NoTimer
    /\ reqs = [i \in 1..MaxRequests |-> IdleReq]
    /\ disk = NoDisk
    /\ page = StartPage
    /\ last \in {[op |-> "clock", t |-> t, zone |-> z] :
                    t \in ClockInstants, z \in TimeZones}
    /\ checks = [ip \in Clients |-> <<>>]

LatestRun ==
    /\ last.op = "clock"
    /\ last' = [op |-> "latest", t |-> last.t, zone |-> last.zone,
                res |-> GetLatestRunWithDate(last.zone, last.t)]
    /\ UNCHANGED <<now, cache, rateBuckets, saveTimeout, reqs, checks,
                   disk, page>>

NextLatest == LatestRun

SpecLatest == InitLatest /\ [][NextLatest]_vars

\* the instant a run of a day starts, and the instant its data is ready
\* (03Z at 08:20, 09Z at 14:20, 15Z at 20:20, 21Z at 02:20 of the next day)
RunStart(run, date) == date * MinutesPerDay + run * 60

ReadyAt(run, date) == RunStart(run, date) + 5 * 60 + 20

RunHours == {MODEL_RUNS[n] : n \in 1..Len(MODEL_RUNS)}

\* C32 as claimed: the run returned is ready, no run that started later is
\* ready, and the date is the UTC day on which the run started.
C32_LatestReadyRun ==
    last.op = "latest" =>
        /\ last.res.run \in RunHours
        /\ ReadyAt(last.res.run, last.res.date) <= last.t
        /\ \A r \in RunHours, d \in 0..(RunClockDays + 1) :
              ReadyAt(r, d) <= last.t =>
                  RunStart(r, d) <= RunStart(last.res.run, last.res.date)

---------------------------------------------------------------------------
(* Every request is answered.  One handler invocation with every upstream  *)
(* outcome, under the assumption that each upstream attempt ends and that  *)
(* timers fire: the clock runs past the horizon while a backoff timer is   *)
(* pending, and requests arrive up to the horizon.                         *)

RequestInTime == now <= RetryMaxTime /\ RequestOne

TickRespond ==
    /\ \/ now + TickMs <= RetryMaxTime
       \/ reqs[1].pc = "backoff" /\ now < reqs[1].wakeAt
    /\ now' = now + TickMs
    /\ last' = [op |-> "tick"]
    /\ UNCHANGED <<cache, rateBuckets, saveTimeout, reqs, checks,
                   disk, page>>

NextRespond == RequestInTime \/ SettleOne \/ WakeOne \/ TickRespond

SpecRespond ==
    /\ Init
    /\ [][NextRespond]_vars
    /\ WF_vars(SettleOne)
    /\ WF_vars(WakeOne)
    /\ WF_vars(TickRespond)

\* a request leaves the handler only with a response, a response ends the
\* handler, and a request answered on arrival never enters the fetch
C33_ResponseStep ==
    /\ (reqs[1].pc # "idle" /\ reqs'[1].pc = "idle") =>
          /\ last'.op = "response"
          /\ last'.slot = 1
          /\ last'.key = reqs[1].key
    /\ (last'.op = "response" /\ <<last, reqs>>' # <<last, reqs>>) =>
          reqs'[1].pc = "idle"
    /\ (reqs[1].pc = "idle" /\ reqs'[1].pc # "idle") =>
          /\ last'.op = "attempt"
          /\ reqs'[1].attempt = 1
    /\ reqs'[1].pc # "idle" => reqs'[1].attempt <= RETRIES

\* C33: every request to the data endpoint receives exactly one response,
\* provided every upstream attempt ends: no path of the handler waits or
\* retries for ever, and none answers twice.
C33_AlwaysAnswered ==
    /\ (reqs[1].pc # "idle") ~> (reqs[1].pc = "idle" /\ last.op = "response")
    /\ [][C33_ResponseStep]_vars

\* C33 witness: a request is answered 502 after its third attempt, each of
\* the three having ended in a different way
C33_Witness ==
    /\ last.op = "response"
    /\ last.status = 502
    /\ last.attempt = RETRIES
    /\ Len(last.errs) = RETRIES
    /\ last.errs[1].kind = "timeout"
    /\ last.errs[2].kind = "neterr"
    /\ last.errs[3].kind = "status"
    /\ reqs[1].pc = "idle"

---------------------------------------------------------------------------
(* Refill of a bucket that was emptied                                     *)

\* the tokens of the client's bucket after the n-th check of history h
TokensAfter(ip, h, n) == AloneAfter(ip, h, n)[ip].tokens

\* C34 as claimed: denied checks do not delay refill: once a check left the
\* bucket empty at time t, the first check at or after t + REFILL_INTERVAL is
\* permitted, whatever checks were denied in between.
C34_DeniedChecksDoNotDelay ==
    \A ip \in Clients :
        \A k \in 1..Len(checks[ip]), m \in 1..Len(checks[ip]) :
            (/\ k < m
             /\ checks[ip][k].ok
             /\ TokensAfter(ip, checks[ip], k) = 0
             /\ checks[ip][m].at >= checks[ip][k].at + REFILL_INTERVAL
             /\ \A j \in (k + 1)..(m - 1) :
                   checks[ip][j].at < checks[ip][k].at + REFILL_INTERVAL)
                => checks[ip][m].ok

\* C34 (amended): the refill interval runs from the client's latest check,
\* denied or not: a check made a whole interval after the previous check is
\* permitted, and a check made sooner on an empty bucket is denied.
C34_RefillFromLatestCheck ==
    \A ip \in Clients :
        \A m \in 2..Len(checks[ip]) :
            LET gap == checks[ip][m].at - checks[ip][m - 1].at
            IN /\ gap >= REFILL_INTERVAL => checks[ip][m].ok
               /\ (gap < REFILL_INTERVAL
                     /\ TokensAfter(ip, checks[ip], m - 1) = 0)
                    => ~checks[ip][m].ok

\* C34 witness: a client emptied its bucket, was denied half an interval
\* later, and is denied again a whole interval after the emptying
C34_Witness ==
    \E ip \in Clients :
        /\ Len(checks[ip]) = BUCKET_MAX + 2
        /\ \A n \in 1..BUCKET_MAX : checks[ip][n].ok
        /\ ~checks[ip][BUCKET_MAX + 1].ok
        /\ ~checks[ip][BUCKET_MAX + 2].ok
        /\ checks[ip][BUCKET_MAX + 1].at > checks[ip][BUCKET_MAX].at
        /\ checks[ip][BUCKET_MAX + 2].at
              >= checks[ip][BUCKET_MAX].at + REFILL_INTERVAL
        /\ checks[ip][BUCKET_MAX + 2].at = now

---------------------------------------------------------------------------
(* The cache key as a function of the request: two requests at a time,     *)
(* with dates that contain the separator and runs and stations spelt like  *)
(* parts of such dates                                                     *)

KeyDates ==
    {<<"5">>, <<"5","_","0","3">>, <<"5","_","0","9">>,
     <<"5","_","0","3","_","J","F","K">>}

KeyRuns == {<<"0","3">>, <<"0","9">>, <<"0","3","_","0","9">>}

KeyStations == {<<"J","F","K">>, <<"j","f","k">>}

KeyParams == {<<"3","h","r","l","y","-","T","M","P">>,
              <<"T","o","t","a","l","-","S","N","O">>}

KeyInputs == [station : KeyStations, run : KeyRuns, param : KeyParams, date : KeyDates]

InitKey ==
    /\ now = 0
    /\ cache = <<>>
    /\ rateBuckets = <<>>
    /\ saveTimeout = NoTimer
    /\ reqs = [i \in 1..MaxRequests |-> IdleReq]
    /\ disk = NoDisk
    /\ page = StartPage
    /\ last \in {[op |-> "pair", a |-> a, b |-> b] : a \in KeyInputs, b \in KeyInputs}
    /\ checks = [ip \in Clients |-> <<>>]

\* both requests are validated and their keys are built (278-292)
MakeKeys ==
    /\ last.op = "pair"
    /\ last' = [op |-> "keys", a |-> last.a, b |-> last.b,
                errA |-> ValidationError(last.a),
                errB |-> ValidationError(last.b),
                keyA |-> CacheKeyOf(last.a.date, last.a.run, last.a.station,
                                    last.a.param),
                keyB |-> CacheKeyOf(last.b.date, last.b.run, last.b.station,
                                    last.b.param)]
    /\ UNCHANGED <<now, cache, rateBuckets, saveTimeout, reqs, checks,
                   disk, page>>

NextKey == MakeKeys

SpecKey == InitKey /\ [][NextKey]_vars

\* C35: the cache key is collision-free over requests that pass validation:
\* two such requests that differ in date, run, station as given or parameter
\* have different keys, also when the date contains the separator.
C35_KeyInjective ==
    last.op = "keys" =>
        ((last.errA = "" /\ last.errB = "" /\ last.a # last.b)
            => last.keyA # last.keyB)

\* C35 witness: two valid requests whose keys differ although the date of one
\* is the date, separator and run of the other
C35_Witness ==
    /\ last.op = "keys"
    /\ last.errA = ""
    /\ last.errB = ""
    /\ last.a.date = last.b.date \o <<"_">> \o last.b.run
    /\ last.a.station = last.b.station
    /\ last.a.param = last.b.param
    /\ last.keyA # last.keyB

---------------------------------------------------------------------------
(* A put for a key that is already in the store                            *)

\* C36 as claimed: a put for a key that is in the store replaces the entry
\* of that key and removes no entry of any other key, also when the store is
\* at its maximum.
C36_ReplaceKeepsOthers ==
    [][(last'.op = "put" /\ last'.key \in CacheKeys(cache)) =>
          /\ CacheKeys(cache') = CacheKeys(cache)
          /\ EntryOf(cache', last'.key).data = last'.data
          /\ \A s \in CacheKeys(cache) \ {last'.key} :
                EntryOf(cache', s) = EntryOf(cache, s)]_vars

---------------------------------------------------------------------------
(* Eviction and remaining lifetime                                         *)

---------------------------------------------------------------------------
(* The snapshot file: the store, the timer of saveCacheToDisk, the write   *)
(* of fs.writeFile and the load at the next start of the process,          *)
(* part_001 lines 23-38, 63-71 and 76-112                                  *)

\* horizon of the snapshot-file model
DurableMaxTime == 2000

\* a put whose timer comes due within the horizon
PutDurable ==
    /\ now + SAVE_DELAY_MS <= DurableMaxTime
    /\ \E key \in SnapshotKeys : Put(key, Processed[RawWith(10)])

\* getFromCache: an expired entry is deleted, and saveCacheToDisk is not
\* called (lines 66-68)
GetDurable == \E key \in SnapshotKeys : Get(key)

\* the clock advances once the callbacks of the timers that are due have run
TickDurable ==
    /\ \A d \in saveTimeout.timers : now < d
    /\ TickTo(DurableMaxTime)

\* the callback of the timer (lines 102-111): Object.fromEntries(cache) is
\* serialised at once and handed to fs.writeFile
SaveTimerWrites ==
    /\ \E d \in saveTimeout.timers :
          /\ now >= d
          /\ saveTimeout' = [handle |-> saveTimeout.handle \ {d},
                             timers |-> saveTimeout.timers \ {d}]
    /\ disk' = [disk EXCEPT !.writing = Append(@, cache)]
    /\ last' = [op |-> "save", written |-> cache]
    /\ UNCHANGED <<now, cache, rateBuckets, reqs, checks, page>>

\* fs.writeFile has replaced the content of the file (the write succeeds;
\* a failure is only logged, line 107)
WriteCompletes ==
    /\ disk.writing # <<>>
    /\ disk' = [file |-> Head(disk.writing), writing |-> Tail(disk.writing)]
    /\ last' = [op |-> "written", file |-> Head(disk.writing)]
    /\ UNCHANGED <<now, cache, rateBuckets, saveTimeout, reqs, checks, page>>

\* the process is stopped while no write is under way and started again:
\* the Map and the timers are gone, and the module body loads the file
\* (lines 23-38) without calling saveCacheToDisk
Restart ==
    /\ disk.writing = <<>>
    /\ cache' = LoadCache(disk.file, now)
    /\ saveTimeout' = NoTimer
    /\ last' = [op |-> "load", file |-> disk.file, at |-> now]
    /\ UNCHANGED <<now, rateBuckets, reqs, checks, disk, page>>

NextDurable ==
    \/ PutDurable
    \/ GetDurable
    \/ TickDurable
    \/ SaveTimerWrites
    \/ WriteCompletes
    \/ Restart

SpecDurable == Init /\ [][NextDurable]_vars

EntriesOf(c) == {c[i] : i \in 1..Len(c)}

\* C38: whenever no snapshot timer is pending and no snapshot write is in
\* progress, the snapshot file holds exactly the entries of the store: every
\* mutation of the store (put, eviction, lazy delete on read, discarding
\* expired entries at load) is followed by a write that reflects it.
C38_SnapshotMatchesStore ==
    (saveTimeout.timers = {} /\ disk.writing = <<>>) =>
        EntriesOf(disk.file) = EntriesOf(cache)

---------------------------------------------------------------------------
(* The dashboard: the object `state`, the change handlers and the runs of  *)
(* loadAllCharts, app.js lines 11-19, 34-65, 98-116, 292-317 and 343-393   *)

\* stations, dates and runs the controls of the page offer
PageStations == {"JFK", "LGA"}
PageDates == {"2026-01-01", "2026-01-02"}
PageRuns == {"03", "09"}

\* CONFIG.defaultOrder and CONFIG.snowOrder, config.js lines 18-19
defaultOrder == <<"3hrly-TMP", "Total-QPF", "3hrly-QPF", "3h-10mWND">>
snowOrder ==
    <<"Total-SNO", "3hrly-SNO", "3hrly-TMP", "Total-QPF", "3hrly-QPF",
      "3h-10mWND">>

\* how a call of fetchSREFData settles (api.js lines 16-33): with data in
\* which some member ends above 0.1, with other data, with the empty
\* object, or with a rejection
FetchOutcomes == {"snow", "plain", "empty", "error"}

\* the arguments of fetchSREFData(state.station, state.run, param,
\* state.date), read from `state` when the call is made; a dataset is
\* known by the arguments it was fetched for
FetchOf(p, param) ==
    [station |-> p.station, run |-> p.run, param |-> param, date |-> p.date]

\* state.data[param] = data
SetData(data, d) == {e \in data : e.param # d.param} \cup {d}

HasData(data, param) == \E e \in data : e.param = param

\* (mutant) loadAllCharts without the test of state.isLoading
LoadAllCharts_NoGuard(p) ==
    IF Len(p.runs) >= 2 THEN p
    ELSE [p EXCEPT !.isLoading = TRUE, !.reloadDisabled = TRUE, !.data = {},
                   !.runs = Append(@, [stage |-> "snow", order |-> <<>>,
                                       at |-> 0,
                                       fetch |-> FetchOf(p, "Total-SNO")])]

\* loadAllCharts up to its first await (app.js lines 343-353): nothing
\* happens while state.isLoading; otherwise the flag is set, the button
\* disabled, state.data emptied and the snow data requested
LoadAllCharts(p) ==
    IF p.isLoading THEN p
    ELSE [p EXCEPT !.isLoading = TRUE, !.reloadDisabled = TRUE, !.data = {},
                   !.runs = Append(@, [stage |-> "snow", order |-> <<>>,
                                       at |-> 0,
                                       fetch |-> FetchOf(p, "Total-SNO")])]

\* an event of the page: what it was, whether a run was in progress and
\* whether its handler called loadAllCharts
PageEvent(kind, called) ==
    /\ last' = [op |-> "event", kind |-> kind, loading |-> page.isLoading,
                called |-> called]
    /\ UNCHANGED <<now, cache, rateBuckets, saveTimeout, reqs, checks, disk>>

\* init() (lines 34-65): the listeners are attached, state.run is set to
\* the latest run and loadAllCharts is called
InitApp ==
    /\ ~page.ready
    /\ \E r \in PageRuns :
          page' = LoadAllCharts([page EXCEPT !.ready = TRUE, !.run = r])
    /\ PageEvent("init", TRUE)

\* handleStationClick (lines 98-105)
HandleStationClick ==
    /\ page.ready
    /\ \E s \in PageStations :
          IF page.isLoading
          THEN page' = page
          ELSE page' = LoadAllCharts([page EXCEPT !.station = s])
    /\ PageEvent("station", ~page.isLoading)

\* handleDateChange (lines 107-110): no test of state.isLoading
HandleDateChange ==
    /\ page.ready
    /\ \E d \in PageDates :
          page' = LoadAllCharts([page EXCEPT !.date = d])
    /\ PageEvent("date", TRUE)

\* handleRunChange (lines 112-116)
HandleRunChange ==
    /\ page.ready
    /\ \E r \in PageRuns :
          IF page.isLoading
          THEN page' = page
          ELSE page' = LoadAllCharts([page EXCEPT !.run = r])
    /\ PageEvent("run", ~page.isLoading)

\* a click on the reload button (line 57); a disabled button gets no click
ClickReload ==
    /\ page.ready
    /\ ~page.reloadDisabled
    /\ page' = LoadAllCharts(page)
    /\ PageEvent("reload", TRUE)

\* Seq without its i-th element
RemoveAt(s, i) == [k \in 1..(Len(s) - 1) |-> IF k < i THEN s[k] ELSE s[k + 1]]

\* the loop of loadAllCharts from position k of paramsToLoad (lines
\* 372-380): Total-SNO is drawn from state.data when it is there, the first
\* other parameter is requested by loadChart and awaited; past the end the
\* run finishes (lines 382-392)
RECURSIVE LoopFrom(_, _, _, _)
LoopFrom(p, i, order, k) ==
    IF k > Len(order)
    THEN [p EXCEPT !.isLoading = FALSE, !.reloadDisabled = FALSE,
                   !.runs = RemoveAt(@, i)]
    ELSE IF order[k] = "Total-SNO" /\ HasData(p.data, "Total-SNO")
    THEN LoopFrom(p, i, order, k + 1)
    ELSE [p EXCEPT !.runs[i] = [stage |-> "chart", order |-> order,
                                at |-> k, fetch |-> FetchOf(p, order[k])]]

\* the await of the snow data returns (lines 353-370): the data, whatever
\* it is, goes to state.data and decides state.hasSnow; a rejection leaves
\* state.data alone and clears state.hasSnow; the layout is built and the
\* loop starts
SnowSettles(p, i, o) ==
    LET q == IF o = "error"
             THEN [p EXCEPT !.hasSnow = FALSE]
             ELSE [p EXCEPT !.data = SetData(@, p.runs[i].fetch),
                            !.hasSnow = (o = "snow")]
    IN LoopFrom(q, i, IF q.hasSnow THEN snowOrder ELSE defaultOrder, 1)

\* the await of loadChart returns (lines 299-316): data that is not empty
\* goes to state.data; empty data and a rejection are shown as "No data";
\* the loop goes on
ChartSettles(p, i, o) ==
    LET q == IF o \in {"snow", "plain"}
             THEN [p EXCEPT !.data = SetData(@, p.runs[i].fetch)]
             ELSE p
    IN LoopFrom(q, i, p.runs[i].order, p.runs[i].at + 1)

\* the fetch a run awaits settles
FetchSettles(i, o) ==
    /\ i \in DOMAIN page.runs
    /\ page' = IF page.runs[i].stage = "snow"
               THEN SnowSettles(page, i, o)
               ELSE ChartSettles(page, i, o)
    /\ last' = [op |-> "settle", outcome |-> o,
                complete |-> Len(page'.runs) < Len(page.runs)]
    /\ UNCHANGED <<now, cache, rateBuckets, saveTimeout, reqs, checks, disk>>

FetchSettlesAny == \E i \in 1..2, o \in FetchOutcomes : FetchSettles(i, o)

NextDashboard ==
    \/ InitApp
    \/ HandleStationClick
    \/ HandleDateChange
    \/ HandleRunChange
    \/ ClickReload
    \/ FetchSettlesAny

\* every fetch settles: the proxy answers every request (C33) and the
\* service worker answers 503 when the network fails
SpecDashboard == Init /\ [][NextDashboard]_vars /\ WF_vars(FetchSettlesAny)

\* one run at most, and the flag and the button tell whether there is one
C39_OneRun ==
    /\ Len(page.runs) <= 1
    /\ page.isLoading <=> (Len(page.runs) = 1)
    /\ page.reloadDisabled <=> page.isLoading

\* a call of loadAllCharts made during a run starts no fetch and leaves
\* state.data alone
C39_CallWhileLoading ==
    (last'.op = "event" /\ last'.called /\ page.isLoading) =>
        /\ page'.runs = page.runs
        /\ page'.data = page.data
        /\ page'.isLoading

\* C39: at most one loadAllCharts run is in progress at any time: a call
\* made while state.isLoading is true returns without fetching or changing
\* state.data, and every started run eventually sets isLoading back to
\* false and re-enables the reload button, whether its fetches succeed or
\* fail.
C39_SingleRunCompletes ==
    /\ [](C39_OneRun)
    /\ [][C39_CallWhileLoading]_vars
    /\ (page.isLoading ~> (~page.isLoading /\ ~page.reloadDisabled))

\* a date change has just called loadAllCharts during a run, and the run
\* goes on alone
C39_Witness ==
    /\ last.op = "event"
    /\ last.called
    /\ last.loading
    /\ Len(page.runs) = 1
    /\ page.runs[1].stage = "chart"

\* C40: when a loadAllCharts run completes, every dataset in state.data
\* was fetched for the station, run and date that state holds at that
\* moment, whatever change events arrived during the run.
C40_DataMatchesSelection ==
    (last.op = "settle" /\ last.complete) =>
        \A d \in page.data :
            /\ d.station = page.station
            /\ d.run = page.run
            /\ d.date = page.date
===========================================================================
